---- MODULE Spec2Model ----
(***************************************************************************)
(* Request dispatch of velocity: the Router's route tables and Find, the   *)
(* Group prefix/middleware accumulator, Server.Use and applyMiddleware,    *)
(* the Context pool, and the handler buildHandler returns, step by step,   *)
(* for concurrent requests.                                                *)
(*                                                                         *)
(* Strings are sequences of one-character strings, so that concatenation   *)
(* (\o), strings.HasPrefix and the composite key method+" "+path are       *)
(* computed character by character.                                        *)
(*                                                                         *)
(* A HandlerFunc value is a sequence: a user handler h is <<h>>, the       *)
(* closure a MiddlewareFunc d returns for next is <<d>> \o next (d is the  *)
(* outermost frame, next is what d calls), and the nil HandlerFunc is <<>>.*)
(***************************************************************************)
EXTENDS Integers, Sequences, FiniteSets, TLC

VARIABLES
    exact,      \* Router.exact: map from key string to route
    prefixes,   \* Router.prefixes: slice of prefixRoute, in registration order
    notFound,   \* Router.notFound: HandlerFunc, NilHandler when unset
    mw,         \* Server.mw: global middleware, in registration order
    groups,     \* the Group values created so far
    req,        \* <<path, method, globalMW>> when the last call was Find, else <<>>
    found,      \* the HandlerFunc that Find call returned
    owner,      \* history: key of exact -> the call that wrote the entry
    powner,     \* history: per entry of prefixes, the call that appended it
    ctxs,       \* the Context objects allocated so far, by identity
    ctxPool,    \* ctxPool: the identities of the idle Context objects
    last,       \* history: the last Handle or Method call and what it replaced
    nfCall,     \* history: the last SetNotFound call and what it replaced
    uses,       \* history: the arguments of the Use calls, in call order
    lineage,    \* history: per group, the decorator lists of its ancestors and itself
    composed,   \* applyMiddleware under test: its argument and its result
    fl,         \* the requests delivered to the handler buildHandler returns
    alive,      \* whether the process is still running
    srv,        \* the Server under construction or constructed, and its history
    obs,        \* the last call observed on a Context or a Server, and its result
    mem,        \* the backing arrays of the decorator slices, and the slices
    trace       \* the events of the last execution of a composed handler

vars == <<exact, prefixes, notFound, mw, groups, req, found,
          owner, powner, last, nfCall, uses,
          lineage, ctxs, ctxPool, composed, fl, alive, srv, obs, mem,
          trace>>

-----------------------------------------------------------------------------
(* Bounds of the model *)

MaxRegs == 2

MaxGlobal == 3

MaxGroups == 2

MaxGroupRegs == 1

MaxCtx == 1

MaxChain == 3

MaxReqs == 2

-----------------------------------------------------------------------------
(* Strings *)

SP == " "

PAbx == <<"/", "a", "b", "/", "x">>

PAby == <<"/", "a", "b", "/", "y">>

MethodRead == <<"r", "e", "a", "d">>

MethodWrite == <<"w", "r", "i", "t", "e">>

PWriteAbx == MethodWrite \o <<SP>> \o PAbx

Methods == {MethodRead, MethodWrite}

Paths == {PAbx, PWriteAbx}

ReqPaths == Paths \cup {PAby}

Prefixes == {<< >>, <<"/", "a">>, <<"/", "a", "b">>}

NilHandler == << >>

RouteArgs == { <<(<<"h1">>), << >> >>,
               <<(<<"h2">>), <<"A", "B">> >> }

NotFoundArgs == { <<"nf1">>, <<"nf2">> }

GlobalArgs == { << >>, <<"G1", "G2">> }

NoRoute == [handler |-> NilHandler, middleware |-> <<"none">>]

NoCall == [op |-> "none"]

UseArgs == { <<"G1">>, <<"G2", "G3">> }

(* The prefix passed at the creation of the k-th group. *)
GroupPrefixes == << <<"/", "a">>, <<"/", "b">>, <<"/", "c">>, <<"/", "d">> >>

(* The decorator passed at the creation of the k-th group. *)
GroupDecorators == <<"M1", "M2", "M3", "M4">>

PX == <<"/", "x">>

GroupReqPaths == { <<"/", "a">> \o PX, <<"/", "a", "/", "b">> \o PX }

Decorators == {"A", "B", "C", "S"}

ShortCircuit == {"S"}

ComposeHandlers == { <<"h1">>, <<"h2">> }

(* A Context with every field nil: requests are numbered from 1, 0 is the *)
(* nil Response and Request, and << >> is the nil store.                   *)
NilContext == [Response |-> 0, Request |-> 0, server |-> "nil",
               store |-> << >>]

(* What Get reports for a key that is not set. *)
Absent == 0

(* Decorators and handlers by what their code does with the Context. *)
RecoverMW == "R"

SetterMW == "W"

PanicMW == "P"

StoreKey == "k"

(* The nil *Server, and the observation before any call. *)
NilServer == [phase |-> "nil"]

NoObservation == [op |-> "none"]

(* No slice allocated. *)
NoMemory == [heap |-> << >>]

(* Keys and values of the Context store; 0 is the nil interface value. *)
contextKeyVerifiedIdentity == "velocity.verified_identity"

StoreKeys == {StoreKey, "k2", contextKeyVerifiedIdentity}

StoreVals == {0, 1, 2}

(* The route registered at PAbx when requests are served: handler and      *)
(* route-level decorators.                                                  *)
ServeRoutes == { <<(<<"h1">>), << >> >>,
                 <<(<<"herr">>), << >> >>,
                 <<(<<"hbad">>), << >> >>,
                 <<(<<"hpanic">>), << >> >>,
                 <<(<<"hget">>), <<"W">> >>,
                 <<(<<"h1">>), <<"P">> >>,
                 <<(<<"h1">>), <<"S">> >> }

ServeGlobals == { << >>, <<"A", "R">> }

(* Request paths: PAbx and PAby are registered, PX is not. *)
ServePaths == {PAbx, PAby, PX}

-----------------------------------------------------------------------------
(* Pure functions *)

HasPrefix(s, p) ==
    /\ Len(p) <= Len(s)
    /\ SubSeq(s, 1, Len(p)) = p

combineMW(a, b) ==
    [i \in 1..(Len(a) + Len(b)) |-> IF i <= Len(a) THEN a[i] ELSE b[i - Len(a)]]

Wrap(d, next) == <<d>> \o next

(* applyMiddleware walking the slice from its first element to its last. *)
RECURSIVE applyFromFirst(_, _, _)
applyFromFirst(h, m, i) ==
    IF i < 1 THEN h
    ELSE applyFromFirst(Wrap(m[Len(m) - i + 1], h), m, i - 1)

RECURSIVE applyFrom(_, _, _)
applyFrom(h, m, i) ==
    IF i < 1 THEN h ELSE applyFrom(Wrap(m[i], h), m, i - 1)

applyMiddleware(h, m) == applyFrom(h, m, Len(m))

CompositeKey(method, path) == method \o <<SP>> \o path

(* The prefix scan without the length comparison: the last match is kept. *)
RECURSIVE ScanLastMatch(_, _, _, _, _)
ScanLastMatch(ps, path, i, best, bestLen) ==
    IF i > Len(ps) THEN best
    ELSE IF HasPrefix(path, ps[i].prefix) /\ Len(ps[i].prefix) > 0
         THEN ScanLastMatch(ps, path, i + 1, i, Len(ps[i].prefix))
         ELSE ScanLastMatch(ps, path, i + 1, best, bestLen)

RECURSIVE ScanPrefixes(_, _, _, _, _)
ScanPrefixes(ps, path, i, best, bestLen) ==
    IF i > Len(ps) THEN best
    ELSE IF HasPrefix(path, ps[i].prefix) /\ Len(ps[i].prefix) > bestLen
         THEN ScanPrefixes(ps, path, i + 1, i, Len(ps[i].prefix))
         ELSE ScanPrefixes(ps, path, i + 1, best, bestLen)

BestPrefix(ps, path) == ScanPrefixes(ps, path, 1, 0, 0)

(* The branch Find takes: which table entry it selects, if any. *)
Lookup(ex, ps, path, method) ==
    IF CompositeKey(method, path) \in DOMAIN ex
    THEN [tier |-> "method", key |-> CompositeKey(method, path)]
    ELSE IF path \in DOMAIN ex
    THEN [tier |-> "path", key |-> path]
    ELSE IF BestPrefix(ps, path) # 0
    THEN [tier |-> "prefix", index |-> BestPrefix(ps, path)]
    ELSE [tier |-> "none"]

FindIn(ex, ps, nf, path, method, globalMW) ==
    LET l == Lookup(ex, ps, path, method) IN
    IF l.tier \in {"method", "path"}
    THEN applyMiddleware(ex[l.key].handler,
                         combineMW(globalMW, ex[l.key].middleware))
    ELSE IF l.tier = "prefix"
    THEN applyMiddleware(ps[l.index].route.handler,
                         combineMW(globalMW, ps[l.index].route.middleware))
    ELSE IF nf # NilHandler
    THEN applyMiddleware(nf, globalMW)
    ELSE NilHandler

RouterLookup(path, method) == Lookup(exact, prefixes, path, method)

RouterFind(path, method, globalMW) ==
    FindIn(exact, prefixes, notFound, path, method, globalMW)

(* A map write that keeps an entry already present under the key. *)
PutIfAbsent(f, k, v) ==
    [x \in DOMAIN f \cup {k} |-> IF x \in DOMAIN f THEN f[x] ELSE v]

Put(f, k, v) == [x \in DOMAIN f \cup {k} |-> IF x = k THEN v ELSE f[x]]

At(f, k) == IF k \in DOMAIN f THEN f[k] ELSE NoRoute

NumRegs == Cardinality(DOMAIN exact) + Len(prefixes)

NoLookup == req' = << >> /\ found' = NilHandler /\ trace' = << >>

(* The events of calling a composed handler: a decorator of ShortCircuit    *)
(* returns without calling next, every other decorator does its work,       *)
(* calls next once and does its work after; a user handler just runs.       *)
(* Calling a composed handler whose short-circuiting decorators answer    *)
(* and then call next all the same.                                         *)
RECURSIVE ExecThrough(_)
ExecThrough(h) ==
    IF h = NilHandler THEN << >>
    ELSE IF Len(h) = 1 THEN << <<h[1], "run">> >>
    ELSE IF Head(h) \in ShortCircuit
    THEN << <<Head(h), "reject">> >> \o ExecThrough(Tail(h))
    ELSE << <<Head(h), "before">> >> \o ExecThrough(Tail(h))
             \o << <<Head(h), "after">> >>

RECURSIVE Exec(_)
Exec(h) ==
    IF h = NilHandler THEN << >>
    ELSE IF Len(h) = 1 THEN << <<h[1], "run">> >>
    ELSE IF Head(h) \in ShortCircuit THEN << <<Head(h), "reject">> >>
    ELSE << <<Head(h), "before">> >> \o Exec(Tail(h)) \o << <<Head(h), "after">> >>

-----------------------------------------------------------------------------
(* Router *)

Init ==
    /\ exact = << >>
    /\ prefixes = << >>
    /\ notFound = NilHandler
    /\ mw = << >>
    /\ groups = << >>
    /\ req = << >>
    /\ found = NilHandler
    /\ owner = << >>
    /\ powner = << >>
    /\ last = NoCall
    /\ nfCall = NoCall
    /\ uses = << >>
    /\ lineage = << >>
    /\ ctxs = << >>
    /\ ctxPool = {}
    /\ fl = << >>
    /\ alive = TRUE
    /\ srv = NilServer
    /\ mem = NoMemory
    /\ obs = NoObservation
    /\ composed = << >>
    /\ trace = << >>

RouterHandle(path, h, m) ==
    /\ exact' = Put(exact, path, [handler |-> h, middleware |-> m])
    /\ last' = [op |-> "Handle", path |-> path, handler |-> h, middleware |-> m,
                old |-> At(exact, path)]
    /\ NoLookup
    /\ UNCHANGED <<fl, alive, srv, obs, mem>>
    /\ UNCHANGED <<prefixes, powner, notFound, nfCall>>

RouterMethod(method, path, h, m) ==
    LET key == CompositeKey(method, path) IN
    /\ exact' = Put(exact, key, [handler |-> h, middleware |-> m])
    /\ last' = [op |-> "Method", method |-> method, path |-> path, handler |-> h,
                middleware |-> m, old |-> At(exact, key)]
    /\ NoLookup
    /\ UNCHANGED <<fl, alive, srv, obs, mem>>
    /\ UNCHANGED <<prefixes, powner, notFound, nfCall>>

RouterHandlePrefix(prefix, h, m) ==
    /\ prefixes' = Append(prefixes,
                          [prefix |-> prefix,
                           route |-> [handler |-> h, middleware |-> m]])
    /\ NoLookup
    /\ UNCHANGED <<fl, alive, srv, obs, mem>>
    /\ UNCHANGED <<exact, owner, notFound, last, nfCall>>

Handle(path, h, m) ==
    /\ path \in DOMAIN exact \/ NumRegs < MaxRegs
    /\ RouterHandle(path, h, m)
    /\ owner' = Put(owner, path,
                    [op |-> "Handle", path |-> path, group |-> 0, callsite |-> m])
    /\ UNCHANGED <<mw, groups, uses, lineage, ctxs, ctxPool, composed>>

Method(method, path, h, m) ==
    /\ CompositeKey(method, path) \in DOMAIN exact \/ NumRegs < MaxRegs
    /\ RouterMethod(method, path, h, m)
    /\ owner' = Put(owner, CompositeKey(method, path),
                    [op |-> "Method", method |-> method, path |-> path,
                     group |-> 0, callsite |-> m])
    /\ UNCHANGED <<mw, groups, uses, lineage, ctxs, ctxPool, composed>>

HandlePrefix(prefix, h, m) ==
    /\ NumRegs < MaxRegs
    /\ RouterHandlePrefix(prefix, h, m)
    /\ powner' = Append(powner, [group |-> 0, callsite |-> m])
    /\ UNCHANGED <<mw, groups, uses, lineage, ctxs, ctxPool, composed>>

(* SetNotFound that keeps a handler already set. *)
SetNotFoundOnce(h) ==
    /\ notFound' = IF notFound = NilHandler THEN h ELSE notFound
    /\ nfCall' = [op |-> "SetNotFound", handler |-> h, old |-> notFound]
    /\ NoLookup
    /\ UNCHANGED <<fl, alive, srv, obs, mem>>
    /\ UNCHANGED <<exact, prefixes, mw, groups, owner, powner, last, uses, lineage,
                   ctxs, ctxPool, composed>>

SetNotFound(h) ==
    /\ notFound' = h
    /\ nfCall' = [op |-> "SetNotFound", handler |-> h, old |-> notFound]
    /\ NoLookup
    /\ UNCHANGED <<fl, alive, srv, obs, mem>>
    /\ UNCHANGED <<exact, prefixes, mw, groups, owner, powner, last, uses, lineage,
                   ctxs, ctxPool, composed>>

(* Find keeping the handler it composed for the route of the last call. *)
FindCached(path, method, globalMW) ==
    /\ req' = <<path, method, globalMW>>
    /\ found' = IF req # << >> /\ req[1] = path /\ req[2] = method
                   /\ found # NilHandler
                THEN found
                ELSE RouterFind(path, method, globalMW)
    /\ UNCHANGED <<fl, alive, srv, obs, mem>>
    /\ UNCHANGED <<exact, prefixes, notFound, mw, groups, owner, powner, last,
                   nfCall, uses, lineage, ctxs, ctxPool, composed, trace>>
Find(path, method, globalMW) ==
    /\ req' = <<path, method, globalMW>>
    /\ found' = RouterFind(path, method, globalMW)
    /\ UNCHANGED <<fl, alive, srv, obs, mem>>
    /\ UNCHANGED <<exact, prefixes, notFound, mw, groups, owner, powner, last,
                   nfCall, uses, lineage, ctxs, ctxPool, composed, trace>>

Next ==
    \/ \E p \in Paths, a \in RouteArgs : Handle(p, a[1], a[2])
    \/ \E m \in Methods, a \in RouteArgs : Method(m, PAbx, a[1], a[2])
    \/ \E p \in Prefixes, a \in RouteArgs : HandlePrefix(p, a[1], a[2])
    \/ \E h \in NotFoundArgs : SetNotFound(h)
    \/ \E p \in ReqPaths, m \in Methods, g \in GlobalArgs : Find(p, m, g)

Spec == Init /\ [][Next]_vars

-----------------------------------------------------------------------------
(* Server.Use, groups, and the dispatch of a request *)

Use(ms) ==
    /\ Len(mw) + Len(ms) <= MaxGlobal
    /\ mw' = mw \o ms
    /\ uses' = Append(uses, ms)
    /\ NoLookup
    /\ UNCHANGED <<fl, alive, srv, obs, mem>>
    /\ UNCHANGED <<exact, prefixes, notFound, groups, owner, powner, last,
                   nfCall, lineage, ctxs, ctxPool, composed>>

RouterGroup(prefix, ms) ==
    /\ Len(groups) < MaxGroups
    /\ groups' = Append(groups, [prefix |-> prefix, middleware |-> ms])
    /\ lineage' = Append(lineage, [prefixes |-> <<prefix>>, mws |-> <<ms>>])
    /\ NoLookup
    /\ UNCHANGED <<fl, alive, srv, obs, mem>>
    /\ UNCHANGED <<exact, prefixes, notFound, mw, owner, powner, last, nfCall,
                   uses, ctxs, ctxPool, composed>>

(* Group.Group putting the sub-group's decorators before the parent's. *)
GroupGroupInnerFirst(g, prefix, ms) ==
    /\ Len(groups) < MaxGroups
    /\ groups' = Append(groups,
                        [prefix |-> groups[g].prefix \o prefix,
                         middleware |-> combineMW(ms, groups[g].middleware)])
    /\ lineage' = Append(lineage,
                         [prefixes |-> Append(lineage[g].prefixes, prefix),
                          mws |-> Append(lineage[g].mws, ms)])
    /\ NoLookup
    /\ UNCHANGED <<fl, alive, srv, obs, mem>>
    /\ UNCHANGED <<exact, prefixes, notFound, mw, owner, powner, last, nfCall,
                   uses, ctxs, ctxPool, composed>>

GroupGroup(g, prefix, ms) ==
    /\ Len(groups) < MaxGroups
    /\ groups' = Append(groups,
                        [prefix |-> groups[g].prefix \o prefix,
                         middleware |-> combineMW(groups[g].middleware, ms)])
    /\ lineage' = Append(lineage,
                         [prefixes |-> Append(lineage[g].prefixes, prefix),
                          mws |-> Append(lineage[g].mws, ms)])
    /\ NoLookup
    /\ UNCHANGED <<fl, alive, srv, obs, mem>>
    /\ UNCHANGED <<exact, prefixes, notFound, mw, owner, powner, last, nfCall,
                   uses, ctxs, ctxPool, composed>>

(* Group.Handle registering under the call-site path alone. *)
GroupHandleBare(g, path, h, ms) ==
    /\ NumRegs < MaxGroupRegs
    /\ RouterHandle(path, h, combineMW(groups[g].middleware, ms))
    /\ owner' = Put(owner, path,
                    [op |-> "Handle", path |-> path, sub |-> path,
                     group |-> g, callsite |-> ms])
    /\ UNCHANGED <<mw, groups, uses, lineage, ctxs, ctxPool, composed>>

GroupHandle(g, path, h, ms) ==
    /\ NumRegs < MaxGroupRegs
    /\ RouterHandle(groups[g].prefix \o path, h, combineMW(groups[g].middleware, ms))
    /\ owner' = Put(owner, groups[g].prefix \o path,
                    [op |-> "Handle", path |-> groups[g].prefix \o path,
                     sub |-> path, group |-> g, callsite |-> ms])
    /\ UNCHANGED <<mw, groups, uses, lineage, ctxs, ctxPool, composed>>

GroupMethod(g, method, path, h, ms) ==
    /\ NumRegs < MaxGroupRegs
    /\ RouterMethod(method, groups[g].prefix \o path, h,
                    combineMW(groups[g].middleware, ms))
    /\ owner' = Put(owner, CompositeKey(method, groups[g].prefix \o path),
                    [op |-> "Method", method |-> method,
                     path |-> groups[g].prefix \o path,
                     sub |-> path, group |-> g, callsite |-> ms])
    /\ UNCHANGED <<mw, groups, uses, lineage, ctxs, ctxPool, composed>>

GroupHandlePrefix(g, prefix, h, ms) ==
    /\ NumRegs < MaxGroupRegs
    /\ RouterHandlePrefix(groups[g].prefix \o prefix, h,
                          combineMW(groups[g].middleware, ms))
    /\ powner' = Append(powner, [group |-> g, sub |-> prefix, callsite |-> ms])
    /\ UNCHANGED <<mw, groups, uses, lineage, ctxs, ctxPool, composed>>

(* acquireContext: ctxPool.Get hands out an idle Context or a new one, and  *)
(* the four fields are bound.                                               *)
Acquirable == ctxPool \cup (IF Len(ctxs) < MaxCtx THEN {Len(ctxs) + 1} ELSE {})

(* The handler nwep calls, resolving against the tables as they were when  *)
(* Start built it.                                                         *)
DispatchFrozen(path, method) ==
    \E c \in Acquirable :
        LET h == FindIn(<< >>, << >>, NilHandler, path, method, mw) IN
        /\ req' = <<path, method, mw>>
        /\ found' = h
        /\ trace' = IF h = NilHandler
                    THEN << <<"not_found", "not found">> >>
                    ELSE Exec(h)
        /\ ctxs' = [i \in 1..Len(ctxs) \cup {c} |->
                        IF i = c THEN NilContext ELSE ctxs[i]]
        /\ ctxPool' = (ctxPool \ {c}) \cup {c}
        /\ UNCHANGED <<fl, alive, srv, obs, mem>>
        /\ UNCHANGED <<exact, prefixes, notFound, mw, groups, owner, powner,
                       last, nfCall, uses, lineage, composed>>
(* The handler nwep calls for each request: acquire a Context, Find, run    *)
(* the handler or answer not_found, release the Context.                    *)
Dispatch(path, method) ==
    \E c \in Acquirable :
        LET h == RouterFind(path, method, mw) IN
        /\ req' = <<path, method, mw>>
        /\ found' = h
        /\ trace' = IF h = NilHandler
                    THEN << <<"not_found", "not found">> >>
                    ELSE Exec(h)
        /\ ctxs' = [i \in 1..Len(ctxs) \cup {c} |->
                        IF i = c THEN NilContext ELSE ctxs[i]]
        /\ ctxPool' = (ctxPool \ {c}) \cup {c}
        /\ UNCHANGED <<fl, alive, srv, obs, mem>>
        /\ UNCHANGED <<exact, prefixes, notFound, mw, groups, owner, powner,
                       last, nfCall, uses, lineage, composed>>

NextGroup ==
    \/ \E ms \in UseArgs : Use(ms)
    \/ RouterGroup(GroupPrefixes[Len(groups) + 1],
                   <<GroupDecorators[Len(groups) + 1]>>)
    \/ \E g \in 1..Len(groups) :
          GroupGroup(g, GroupPrefixes[Len(groups) + 1],
                     <<GroupDecorators[Len(groups) + 1]>>)
    \/ \E g \in 1..Len(groups), a \in RouteArgs : GroupHandle(g, PX, a[1], a[2])
    \/ \E g \in 1..Len(groups), m \in Methods :
          GroupMethod(g, m, PX, <<"h1">>, <<"A">>)
    \/ \E g \in 1..Len(groups) :
          GroupHandlePrefix(g, PX, <<"h2">>, <<"B">>)
    \/ \E p \in GroupReqPaths, m \in Methods : Dispatch(p, m)

SpecGroup == Init /\ [][NextGroup]_vars

(* A started Server with an empty route table: Server.Handle and requests  *)
(* in any order.                                                           *)
NextLive ==
    \/ \E p \in {PAbx, PAby}, a \in RouteArgs : Handle(p, a[1], a[2])
    \/ \E p \in ServePaths, m \in Methods : Dispatch(p, m)

SpecLive == Init /\ [][NextLive]_vars

-----------------------------------------------------------------------------
(* applyMiddleware on its own *)

RECURSIVE SeqsUpTo(_, _)
SeqsUpTo(S, n) ==
    IF n = 0 THEN { << >> }
    ELSE LET shorter == SeqsUpTo(S, n - 1)
         IN  shorter \cup {Append(t, x) : t \in shorter, x \in S}

InitCompose ==
    /\ exact = << >>
    /\ prefixes = << >>
    /\ notFound = NilHandler
    /\ mw = << >>
    /\ groups = << >>
    /\ req = << >>
    /\ found = NilHandler
    /\ owner = << >>
    /\ powner = << >>
    /\ last = NoCall
    /\ nfCall = NoCall
    /\ uses = << >>
    /\ lineage = << >>
    /\ ctxs = << >>
    /\ ctxPool = {}
    /\ fl = << >>
    /\ alive = TRUE
    /\ srv = NilServer
    /\ mem = NoMemory
    /\ obs = NoObservation
    /\ \E h \in ComposeHandlers, m \in SeqsUpTo(Decorators, MaxChain) :
          composed = [h |-> h, mw |-> m, stage |-> "args", out |-> NilHandler]
    /\ trace = << >>

Compose ==
    /\ composed.stage = "args"
    /\ composed' = [composed EXCEPT !.stage = "composed",
                                    !.out = applyMiddleware(composed.h, composed.mw)]
    /\ UNCHANGED <<fl, alive, srv, obs, mem>>
    /\ UNCHANGED <<exact, prefixes, notFound, mw, groups, req, found, owner,
                   powner, last, nfCall, uses, lineage, ctxs, ctxPool, trace>>

Call ==
    /\ composed.stage = "composed"
    /\ composed' = [composed EXCEPT !.stage = "called"]
    /\ trace' = Exec(composed.out)
    /\ UNCHANGED <<fl, alive, srv, obs, mem>>
    /\ UNCHANGED <<exact, prefixes, notFound, mw, groups, req, found, owner,
                   powner, last, nfCall, uses, lineage, ctxs, ctxPool>>

NextCompose == Compose \/ Call

SpecCompose == InitCompose /\ [][NextCompose]_vars

-----------------------------------------------------------------------------
(* The handler buildHandler returns, one step at a time, for requests that *)
(* nwep delivers concurrently.  fl[r] is request r: its path and method,   *)
(* the Context c it holds, its position in buildHandler (pc), the composed *)
(* handler h, the frame of h that is running (pos) and whether control is  *)
(* going in, returning (err: the returned error is non-nil) or panicking,  *)
(* the responses written to its ResponseWriter (resp), the entries logged  *)
(* for it (log), what its Get calls returned (seen) and its events.        *)

InitServe ==
    /\ \E a \in ServeRoutes :
          exact = (PAbx :> [handler |-> a[1], middleware |-> a[2]])
                  @@ (PAby :> [handler |-> <<"hget">>, middleware |-> << >>])
    /\ prefixes = << >>
    /\ notFound = NilHandler
    /\ mw \in ServeGlobals
    /\ groups = << >>
    /\ req = << >>
    /\ found = NilHandler
    /\ owner = << >>
    /\ powner = << >>
    /\ last = NoCall
    /\ nfCall = NoCall
    /\ uses = << >>
    /\ lineage = << >>
    /\ ctxs = << >>
    /\ ctxPool = {}
    /\ composed = << >>
    /\ fl = << >>
    /\ alive = TRUE
    /\ srv = NilServer
    /\ mem = NoMemory
    /\ obs = NoObservation
    /\ trace = << >>

ServeFrame == <<exact, prefixes, notFound, mw, groups, req, found, owner,
                powner, last, nfCall, uses, lineage, composed, srv, obs, mem,
                trace>>

(* nwep calls the handler Server sv built with a request. *)
DeliverTo(sv, path, method) ==
    /\ alive
    /\ Len(fl) < MaxReqs
    /\ fl' = Append(fl, [server |-> sv, path |-> path, method |-> method,
                         ctx |-> 0,
                         pc |-> "acquire", h |-> NilHandler, pos |-> 0,
                         mode |-> "in", err |-> FALSE, resp |-> << >>,
                         log |-> << >>, seen |-> << >>, events |-> << >>,
                         released |-> 0])
    /\ UNCHANGED <<ServeFrame, ctxs, ctxPool, alive>>

(* nwep calls the handler of the one Server with a request. *)
Deliver(path, method) == DeliverTo("s", path, method)

(* ctxPool.Get handing out any Context allocated so far, idle or not. *)
PoolGetAny == 1..(Len(ctxs) + 1)

(* ctxPool.Get: an idle Context, or the one New allocates. *)
PoolGet == ctxPool \cup {Len(ctxs) + 1}

(* acquireContext without the assignment of Request. *)
AcquireUnbound(r) ==
    /\ alive
    /\ fl[r].pc = "acquire"
    /\ \E c \in PoolGet :
          /\ ctxs' = [i \in 1..Len(ctxs) \cup {c} |->
                          IF i = c
                          THEN [Response |-> r,
                                Request |-> IF c \in 1..Len(ctxs)
                                            THEN ctxs[c].Request ELSE 0,
                                server |-> fl[r].server, store |-> << >>]
                          ELSE ctxs[i]]
          /\ ctxPool' = ctxPool \ {c}
          /\ fl' = [fl EXCEPT ![r].ctx = c, ![r].pc = "find"]
    /\ UNCHANGED <<ServeFrame, alive>>

AcquireContext(r) ==
    /\ alive
    /\ fl[r].pc = "acquire"
    /\ \E c \in PoolGet :
          /\ ctxs' = [i \in 1..Len(ctxs) \cup {c} |->
                          IF i = c
                          THEN [Response |-> r, Request |-> r,
                                server |-> fl[r].server, store |-> << >>]
                          ELSE ctxs[i]]
          /\ ctxPool' = ctxPool \ {c}
          /\ fl' = [fl EXCEPT ![r].ctx = c, ![r].pc = "find"]
    /\ UNCHANGED <<ServeFrame, alive>>

(* A response method of Context c, called by a frame of request r, which   *)
(* then returns the nil result of the write: the response goes to the       *)
(* ResponseWriter c is bound to; through a nil Response the call panics.    *)
Answer(f, r, c, status, body) ==
    IF ctxs[c].Response = 0
    THEN [f EXCEPT ![r].mode = "panic", ![r].pos = @ - 1]
    ELSE LET g == [f EXCEPT ![ctxs[c].Response].resp = Append(@, <<status, body>>)]
         IN  [g EXCEPT ![r].mode = "ret", ![r].err = FALSE, ![r].pos = @ - 1]

(* Context.Path *)
CtxPath(c) == IF ctxs[c].Request = 0 THEN << >> ELSE fl[ctxs[c].Request].path

(* Context.Get *)
CtxGet(c, key) ==
    IF key \in DOMAIN ctxs[c].store THEN ctxs[c].store[key] ELSE Absent

(* Context.Set writing to a store that all Contexts share. *)
CtxSetShared(c, key, val) ==
    [i \in 1..Len(ctxs) |->
        [ctxs[i] EXCEPT !.store =
            [x \in DOMAIN @ \cup {key} |-> IF x = key THEN val ELSE @[x]]]]

(* Context.Set *)
CtxSet(c, key, val) ==
    [ctxs EXCEPT ![c].store =
        [x \in DOMAIN @ \cup {key} |-> IF x = key THEN val ELSE @[x]]]

(* The dispatcher returning without an answer when Find returns nil. *)
ResolveSilent(r) ==
    /\ alive
    /\ fl[r].pc = "find"
    /\ LET h == RouterFind(fl[r].path, fl[r].method, mw)
       IN  IF h = NilHandler
           THEN fl' = [fl EXCEPT ![r].pc = "release", ![r].pos = 0,
                                 ![r].mode = "ret"]
           ELSE fl' = [fl EXCEPT ![r].pc = "run", ![r].h = h, ![r].pos = 1,
                                 ![r].mode = "in"]
    /\ UNCHANGED <<ServeFrame, ctxs, ctxPool, alive>>

(* s.router.Find, and the not_found answer when it returns nil. *)
Resolve(r) ==
    /\ alive
    /\ fl[r].pc = "find"
    /\ LET h == RouterFind(fl[r].path, fl[r].method, mw)
           c == fl[r].ctx
       IN  IF h = NilHandler
           THEN fl' = [Answer(fl, r, c, "not_found", "not found")
                          EXCEPT ![r].pc = "release", ![r].pos = 0]
           ELSE fl' = [fl EXCEPT ![r].pc = "run", ![r].h = h, ![r].pos = 1,
                                 ![r].mode = "in"]
    /\ UNCHANGED <<ServeFrame, ctxs, ctxPool, alive>>

(* Control enters frame pos of the composed handler. *)
Enter(r) ==
    /\ alive
    /\ fl[r].pc = "run"
    /\ fl[r].mode = "in"
    /\ LET c == fl[r].ctx
           d == fl[r].h[fl[r].pos]
           ev(f, e) == [f EXCEPT ![r].events = Append(@, <<d, e>>)]
       IN  IF d = SetterMW
           THEN /\ ctxs' = CtxSet(c, StoreKey, r)
                /\ fl' = [fl EXCEPT ![r].pos = @ + 1]
           ELSE /\ ctxs' = ctxs
                /\ fl' =
                     IF d = RecoverMW
                     THEN [fl EXCEPT ![r].pos = @ + 1]
                     ELSE IF d = PanicMW
                     THEN [fl EXCEPT ![r].mode = "panic", ![r].pos = @ - 1]
                     ELSE IF d \in ShortCircuit
                     THEN Answer(ev(fl, "reject"), r, c, "unauthorized",
                                 "peer identity required")
                     ELSE IF d = "h1"
                     THEN Answer(ev(fl, "run"), r, c, "ok", "body")
                     ELSE IF d = "hget"
                     THEN Answer([ev(fl, "run") EXCEPT
                                     ![r].seen = Append(@, CtxGet(c, StoreKey))],
                                 r, c, "ok", "body")
                     ELSE IF d = "hbad"
                     THEN [Answer(ev(fl, "run"), r, c, "bad_request", "bad")
                              EXCEPT ![r].err = TRUE]
                     ELSE IF d = "herr"
                     THEN [ev(fl, "run") EXCEPT ![r].mode = "ret",
                                                ![r].err = TRUE, ![r].pos = @ - 1]
                     ELSE IF d = "hpanic"
                     THEN [ev(fl, "run") EXCEPT ![r].mode = "panic",
                                                ![r].pos = @ - 1]
                     ELSE IF d = "hwpanic"
                     THEN [Answer(ev(fl, "run"), r, c, "ok", "body")
                              EXCEPT ![r].mode = "panic"]
                     ELSE [ev(fl, "before") EXCEPT ![r].pos = @ + 1]
    /\ UNCHANGED <<ServeFrame, ctxPool, alive>>

(* Recover's deferred function logging the panic and returning nil       *)
(* without an answer.                                                      *)
RecoveredNoAnswer(f, r, c) ==
    [f EXCEPT ![r].log = Append(@, <<"panic recovered", "panic", CtxPath(c)>>),
              ![r].mode = "ret", ![r].err = FALSE, ![r].pos = @ - 1]

(* Recover's deferred function when a panic reaches it. *)
Recovered(f, r, c) ==
    Answer([f EXCEPT ![r].log = Append(@, <<"panic recovered", "panic", CtxPath(c)>>)],
           r, c, "internal_error", "internal error")

(* Control comes back to frame pos, with a result or with a panic. *)
Leave(r) ==
    /\ alive
    /\ fl[r].pc = "run"
    /\ fl[r].mode \in {"ret", "panic"}
    /\ fl[r].pos >= 1
    /\ LET c == fl[r].ctx
           d == fl[r].h[fl[r].pos]
       IN  fl' = IF fl[r].mode = "panic"
                 THEN IF d = RecoverMW
                      THEN Recovered(fl, r, c)
                      ELSE [fl EXCEPT ![r].pos = @ - 1]
                 ELSE IF d \in {RecoverMW, SetterMW}
                      THEN [fl EXCEPT ![r].pos = @ - 1]
                      ELSE [fl EXCEPT ![r].pos = @ - 1,
                                      ![r].events = Append(@, <<d, "after">>)]
    /\ UNCHANGED <<ServeFrame, ctxs, ctxPool, alive>>

(* The dispatcher dropping the error h(c) returned. *)
ReturnQuiet(r) ==
    /\ alive
    /\ fl[r].pc = "run"
    /\ fl[r].mode \in {"ret", "panic"}
    /\ fl[r].pos = 0
    /\ fl' = [fl EXCEPT ![r].pc = "release"]
    /\ UNCHANGED <<ServeFrame, ctxs, ctxPool, alive>>

(* h(c) is over: the error is logged, and the deferred release is next. *)
Return(r) ==
    /\ alive
    /\ fl[r].pc = "run"
    /\ fl[r].mode \in {"ret", "panic"}
    /\ fl[r].pos = 0
    /\ fl' = [fl EXCEPT ![r].pc = "release",
                        ![r].log = IF fl[r].mode = "ret" /\ fl[r].err
                                   THEN Append(@, <<"handler error", fl[r].path,
                                                    fl[r].method, "error">>)
                                   ELSE @]
    /\ UNCHANGED <<ServeFrame, ctxs, ctxPool, alive>>

(* releaseContext leaving the store as it is. *)
ClearBindingsOnly(r) ==
    /\ alive
    /\ fl[r].pc = "release"
    /\ ctxs' = [ctxs EXCEPT ![fl[r].ctx] =
                    [NilContext EXCEPT !.store = ctxs[fl[r].ctx].store]]
    /\ fl' = [fl EXCEPT ![r].pc = "put"]
    /\ UNCHANGED <<ServeFrame, ctxPool, alive>>

(* releaseContext, the four assignments. *)
ClearContext(r) ==
    /\ alive
    /\ fl[r].pc = "release"
    /\ ctxs' = [ctxs EXCEPT ![fl[r].ctx] = NilContext]
    /\ fl' = [fl EXCEPT ![r].pc = "put"]
    /\ UNCHANGED <<ServeFrame, ctxPool, alive>>

(* releaseContext, ctxPool.Put; a panic then goes on to the caller. *)
PoolPut(r) ==
    /\ alive
    /\ fl[r].pc = "put"
    /\ ctxPool' = ctxPool \cup {fl[r].ctx}
    /\ fl' = [fl EXCEPT ![r].pc = IF fl[r].mode = "panic" THEN "unwound"
                                  ELSE "done",
                        ![r].released = @ + 1]
    /\ UNCHANGED <<ServeFrame, ctxs, alive>>

(* A panic leaves the handler buildHandler returned: nothing in it recovers, *)
(* and what the caller in nwep does is not this repository's code, so the   *)
(* process either goes on or is terminated by the Go runtime.               *)
Escape(r) ==
    /\ alive
    /\ fl[r].pc = "unwound"
    /\ fl' = [fl EXCEPT ![r].pc = "escaped"]
    /\ alive' \in BOOLEAN
    /\ UNCHANGED <<ServeFrame, ctxs, ctxPool>>

NextServe ==
    \/ \E p \in ServePaths : Deliver(p, MethodRead)
    \/ \E r \in 1..Len(fl) : AcquireContext(r)
    \/ \E r \in 1..Len(fl) : Resolve(r)
    \/ \E r \in 1..Len(fl) : Enter(r)
    \/ \E r \in 1..Len(fl) : Leave(r)
    \/ \E r \in 1..Len(fl) : Return(r)
    \/ \E r \in 1..Len(fl) : ClearContext(r)
    \/ \E r \in 1..Len(fl) : PoolPut(r)
    \/ \E r \in 1..Len(fl) : Escape(r)

SpecServe == InitServe /\ [][NextServe]_vars

(* Routes whose handler answers once at most: h1 answers, hbad answers and *)
(* returns an error, hwpanic answers and then panics, herr and hpanic do   *)
(* not answer; S stands for a decorator that answers instead of calling    *)
(* next (RequirePeer, AllowPeers, MethodFilter), P for one that panics.    *)
AnsweringRoutes == { <<(<<"h1">>), << >> >>,
                     <<(<<"hbad">>), << >> >>,
                     <<(<<"hwpanic">>), << >> >>,
                     <<(<<"hpanic">>), << >> >>,
                     <<(<<"h1">>), <<"S">> >>,
                     <<(<<"hwpanic">>), <<"S">> >> }

InitAnswering ==
    /\ \E a \in AnsweringRoutes :
          exact = (PAbx :> [handler |-> a[1], middleware |-> a[2]])
                  @@ (PAby :> [handler |-> <<"herr">>, middleware |-> << >>])
    /\ prefixes = << >>
    /\ notFound = NilHandler
    /\ mw \in ServeGlobals
    /\ groups = << >>
    /\ req = << >>
    /\ found = NilHandler
    /\ owner = << >>
    /\ powner = << >>
    /\ last = NoCall
    /\ nfCall = NoCall
    /\ uses = << >>
    /\ lineage = << >>
    /\ ctxs = << >>
    /\ ctxPool = {}
    /\ composed = << >>
    /\ fl = << >>
    /\ alive = TRUE
    /\ srv = NilServer
    /\ mem = NoMemory
    /\ obs = NoObservation
    /\ trace = << >>

SpecAnswering == InitAnswering /\ [][NextServe]_vars

(* Two Servers of one process, each with the handler h1 at PAbx and the    *)
(* global decorator A, serving requests side by side; they share the       *)
(* package-level ctxPool.                                                  *)
Servers == {"s", "t"}

InitPool ==
    /\ exact = (PAbx :> [handler |-> <<"h1">>, middleware |-> << >>])
    /\ prefixes = << >>
    /\ notFound = NilHandler
    /\ mw = <<"A">>
    /\ groups = << >>
    /\ req = << >>
    /\ found = NilHandler
    /\ owner = << >>
    /\ powner = << >>
    /\ last = NoCall
    /\ nfCall = NoCall
    /\ uses = << >>
    /\ lineage = << >>
    /\ ctxs = << >>
    /\ ctxPool = {}
    /\ composed = << >>
    /\ fl = << >>
    /\ alive = TRUE
    /\ srv = NilServer
    /\ mem = NoMemory
    /\ obs = NoObservation
    /\ trace = << >>

NextPool ==
    \/ \E sv \in Servers, p \in {PAbx, PX} : DeliverTo(sv, p, MethodRead)
    \/ \E r \in 1..Len(fl) : AcquireContext(r)
    \/ \E r \in 1..Len(fl) : Resolve(r)
    \/ \E r \in 1..Len(fl) : Enter(r)
    \/ \E r \in 1..Len(fl) : Leave(r)
    \/ \E r \in 1..Len(fl) : Return(r)
    \/ \E r \in 1..Len(fl) : ClearContext(r)
    \/ \E r \in 1..Len(fl) : PoolPut(r)

SpecPool == InitPool /\ [][NextPool]_vars

-----------------------------------------------------------------------------
(* Context store *)

(* Context.Get: the value and the found flag. *)
CtxLookup(c, key) ==
    IF ctxs[c].store = << >>
    THEN [val |-> 0, ok |-> FALSE]
    ELSE [val |-> CtxGet(c, key), ok |-> key \in DOMAIN ctxs[c].store]

(* Context.MustGet returning the zero value for a key that is not set. *)
CtxMustGetQuiet(c, key) ==
    [val |-> CtxLookup(c, key).val, panic |-> FALSE]

(* Context.MustGet *)
CtxMustGet(c, key) ==
    LET g == CtxLookup(c, key)
    IN  IF ~g.ok THEN [val |-> 0, panic |-> TRUE]
        ELSE [val |-> g.val, panic |-> FALSE]

(* One Context bound to a request, as a handler holds it. *)
InitStore ==
    /\ exact = << >>
    /\ prefixes = << >>
    /\ notFound = NilHandler
    /\ mw = << >>
    /\ groups = << >>
    /\ req = << >>
    /\ found = NilHandler
    /\ owner = << >>
    /\ powner = << >>
    /\ last = NoCall
    /\ nfCall = NoCall
    /\ uses = << >>
    /\ lineage = << >>
    /\ ctxs = << [Response |-> 1, Request |-> 1, server |-> "s",
                  store |-> << >>] >>
    /\ ctxPool = {}
    /\ composed = << >>
    /\ fl = << >>
    /\ alive = TRUE
    /\ srv = NilServer
    /\ mem = NoMemory
    /\ obs = [op |-> "none", key |-> "", val |-> 0, ok |-> FALSE,
              panic |-> FALSE, written |-> << >>]
    /\ trace = << >>

StoreFrame == <<exact, prefixes, notFound, mw, groups, req, found, owner,
                powner, last, nfCall, uses, lineage, ctxPool, composed, fl,
                alive, srv, mem, trace>>

ContextSet(key, val) ==
    /\ ctxs' = CtxSet(1, key, val)
    /\ obs' = [op |-> "Set", key |-> key, val |-> val, ok |-> FALSE,
               panic |-> FALSE,
               written |-> [x \in DOMAIN obs.written \cup {key} |->
                               IF x = key THEN val ELSE obs.written[x]]]
    /\ UNCHANGED StoreFrame

ContextGet(key) ==
    /\ obs' = [obs EXCEPT !.op = "Get", !.key = key,
                          !.val = CtxLookup(1, key).val,
                          !.ok = CtxLookup(1, key).ok, !.panic = FALSE]
    /\ UNCHANGED <<StoreFrame, ctxs>>

ContextMustGet(key) ==
    /\ obs' = [obs EXCEPT !.op = "MustGet", !.key = key,
                          !.val = CtxMustGet(1, key).val,
                          !.ok = FALSE,
                          !.panic = CtxMustGet(1, key).panic]
    /\ UNCHANGED <<StoreFrame, ctxs>>

NextStore ==
    \/ \E key \in StoreKeys, val \in StoreVals : ContextSet(key, val)
    \/ \E key \in StoreKeys : ContextGet(key)
    \/ \E key \in StoreKeys : ContextMustGet(key)

SpecStore == InitStore /\ [][NextStore]_vars

-----------------------------------------------------------------------------
(* Server construction and lifecycle *)

MaxOpts == 2

MaxShutdowns == 2

(* nwep.Settings, and whether the *Settings of the Server is non-nil. *)
ZeroSettings ==
    [alloc |-> FALSE, MaxStreams |-> 0, MaxMessageSize |-> 0, TimeoutMs |-> 0,
     Compression |-> "", Role |-> ""]

(* The nwep.Settings value given to WithSettings. *)
GivenSettings ==
    [alloc |-> TRUE, MaxStreams |-> 5, MaxMessageSize |-> 0, TimeoutMs |-> 9,
     Compression |-> "zstd", Role |-> ""]

(* The Config values given to WithConfig. *)
ZeroConfig ==
    [KeyFile |-> "", KeyEnv |-> "", LogLevel |-> 0, MaxStreams |-> 0,
     MaxMessageSize |-> 0, TimeoutMs |-> 0, Compression |-> "", Role |-> ""]

Configs ==
    "WithConfigZero" :> ZeroConfig
    @@ "WithConfigRole" :> [ZeroConfig EXCEPT !.Role = "anchor", !.LogLevel = 2,
                                              !.KeyEnv = "env"]
    @@ "WithConfigKeys" :> [ZeroConfig EXCEPT !.KeyFile = "good",
                                              !.KeyEnv = "env",
                                              !.MaxStreams = 7]
    @@ "WithConfigEnv" :> [ZeroConfig EXCEPT !.KeyEnv = "unset"]
    @@ "WithConfigBadKey" :> [ZeroConfig EXCEPT !.KeyFile = "bad",
                                                !.Role = "anchor"]

(* The options given to New. *)
Options ==
    {"WithKeypair", "WithKeyFileBad", "WithSettings", "WithRole", "WithTrust",
     "WithTrustBad", "WithLogServer", "WithAnchorServer", "OnStart",
     "OnStart2", "OnShutdown1", "OnShutdown2"} \cup DOMAIN Configs

MaxCallbacks == 2

(* The entries of seq at the positions in R, in the order of seq. *)
Pick(seq, R) ==
    LET F[i \in 0..Len(seq)] ==
            IF i = 0 THEN << >>
            ELSE IF i \in R THEN Append(F[i - 1], seq[i]) ELSE F[i - 1]
    IN  F[Len(seq)]

(* The options that hand a resource to the Server. *)
ResourceOptions == <<"WithLogServer", "WithAnchorServer", "WithTrust">>

(* The Server literal New builds before it applies the options. *)
FreshServer(opts) ==
    [phase |-> "new", opts |-> opts, keypair |-> "nil",
     settings |-> ZeroSettings, logLevel |-> 0, nwep |-> "nil",
     logServer |-> "nil", anchorServer |-> "nil", trustStore |-> "nil",
     onStart |-> << >>, onShutdown |-> << >>,
     applied |-> << >>, hist |-> << >>,
     freed |-> [logServer |-> 0, anchorServer |-> 0, trustStore |-> 0],
     shutdowns |-> 0]

(* LoadOrGenerateKeypair *)
LoadOrGenerateKeypair(path) ==
    IF path = "bad" THEN [kp |-> "nil", err |-> TRUE]
    ELSE [kp |-> "file", err |-> FALSE]

(* KeypairFromEnv *)
KeypairFromEnv(envVar) ==
    IF envVar = "unset" THEN [kp |-> "nil", err |-> TRUE]
    ELSE [kp |-> "env", err |-> FALSE]

(* Config.Apply *)
ConfigApply(cfg, s) ==
    LET kf == LoadOrGenerateKeypair(cfg.KeyFile)
        s1 == IF cfg.KeyFile # "" /\ ~kf.err
              THEN [s EXCEPT !.keypair = kf.kp] ELSE s
        ke == KeypairFromEnv(cfg.KeyEnv)
        s2 == IF cfg.KeyEnv # "" /\ s1.keypair = "nil" /\ ~ke.err
              THEN [s1 EXCEPT !.keypair = ke.kp] ELSE s1
        s3 == IF cfg.LogLevel # 0
              THEN [s2 EXCEPT !.logLevel = cfg.LogLevel] ELSE s2
        settings ==
            [alloc |-> TRUE,
             MaxStreams |-> IF cfg.MaxStreams > 0 THEN cfg.MaxStreams ELSE 0,
             MaxMessageSize |->
                 IF cfg.MaxMessageSize > 0 THEN cfg.MaxMessageSize ELSE 0,
             TimeoutMs |-> IF cfg.TimeoutMs > 0 THEN cfg.TimeoutMs ELSE 0,
             Compression |-> IF cfg.Compression # "" THEN cfg.Compression ELSE "",
             Role |-> IF cfg.Role # "" THEN cfg.Role ELSE ""]
    IN  IF cfg.KeyFile # "" /\ kf.err
        THEN [s |-> s, err |-> TRUE]
        ELSE IF cfg.KeyEnv # "" /\ s1.keypair = "nil" /\ ke.err
        THEN [s |-> s1, err |-> TRUE]
        ELSE [s |-> [s3 EXCEPT !.settings = settings], err |-> FALSE]

(* One Option applied to the Server: the Server after it, and whether the  *)
(* option returned an error.                                                *)
ApplyOption(o, s) ==
    LET ok(t) == [s |-> t, err |-> FALSE]
    IN  CASE o = "WithKeypair" -> ok([s EXCEPT !.keypair = "given"])
          [] o = "WithKeyFileBad" ->
                 [s |-> s, err |-> LoadOrGenerateKeypair("bad").err]
          [] o = "WithSettings" -> ok([s EXCEPT !.settings = GivenSettings])
          [] o = "WithRole" ->
                 ok([s EXCEPT !.settings = [@ EXCEPT !.alloc = TRUE,
                                                     !.Role = "log_server"]])
          [] o = "WithTrust" -> ok([s EXCEPT !.trustStore = "held"])
          [] o = "WithTrustBad" -> [s |-> s, err |-> TRUE]
          [] o = "WithLogServer" -> ok([s EXCEPT !.logServer = "held"])
          [] o = "WithAnchorServer" -> ok([s EXCEPT !.anchorServer = "held"])
          [] o = "OnStart" -> ok([s EXCEPT !.onStart = Append(@, "s1")])
          [] o = "OnStart2" -> ok([s EXCEPT !.onStart = Append(@, "s2")])
          [] o = "OnShutdown1" ->
                 ok([s EXCEPT !.onShutdown = Append(@, "d1")])
          [] o = "OnShutdown2" ->
                 ok([s EXCEPT !.onShutdown = Append(@, "d2")])
          [] OTHER -> ConfigApply(Configs[o], s)

(* What the history keeps of an option: the fields it may have written. *)
Applied(o, r) ==
    [opt |-> o, err |-> r.err, keypair |-> r.s.keypair,
     settings |-> r.s.settings]

(* The loop of New over its options going on after an option's error. *)
RECURSIVE ApplyAllOptions(_, _)
ApplyAllOptions(s, i) ==
    IF i > Len(s.opts) THEN s
    ELSE LET r == ApplyOption(s.opts[i], s)
             t == [r.s EXCEPT !.applied = Append(@, Applied(s.opts[i], r))]
         IN  ApplyAllOptions(t, i + 1)

(* The loop of New over its options, from option i on. *)
RECURSIVE ApplyOptions(_, _)
ApplyOptions(s, i) ==
    IF i > Len(s.opts) THEN s
    ELSE LET r == ApplyOption(s.opts[i], s)
             t == [r.s EXCEPT !.applied = Append(@, Applied(s.opts[i], r))]
         IN  IF r.err THEN [t EXCEPT !.phase = "failed"]
             ELSE ApplyOptions(t, i + 1)

NoResult ==
    [op |-> "none", err |-> "", sent |-> FALSE, count |-> 0, peers |-> << >>,
     pre |-> NilServer, seg |-> << >>, val |-> ""]

InitLife ==
    /\ exact = << >>
    /\ prefixes = << >>
    /\ notFound = NilHandler
    /\ mw = << >>
    /\ groups = << >>
    /\ req = << >>
    /\ found = NilHandler
    /\ owner = << >>
    /\ powner = << >>
    /\ last = NoCall
    /\ nfCall = NoCall
    /\ uses = << >>
    /\ lineage = << >>
    /\ ctxs = << >>
    /\ ctxPool = {}
    /\ composed = << >>
    /\ fl = << >>
    /\ alive = TRUE
    /\ srv = NilServer
    /\ mem = NoMemory
    /\ obs = NoResult
    /\ trace = << >>

LifeFrame == <<exact, prefixes, notFound, mw, groups, req, found, owner,
               powner, last, nfCall, uses, lineage, ctxs, ctxPool, composed,
               fl, alive, mem, trace>>

(* New: nwep.Init, the options in order, then the keypair. *)
New(opts, initOK, genOK) ==
    /\ srv = NilServer
    /\ LET s == ApplyOptions(FreshServer(opts), 1)
           ret(t, e) == /\ srv' = t
                        /\ obs' = [NoResult EXCEPT !.op = "New", !.err = e]
       IN  IF ~initOK
           THEN ret([FreshServer(opts) EXCEPT !.phase = "failed"],
                    "velocity: nwep init")
           ELSE IF s.phase = "failed" THEN ret(s, "velocity: option")
           ELSE IF s.keypair # "nil"
           THEN ret([s EXCEPT !.phase = "ready"], "")
           ELSE IF genOK
           THEN ret([s EXCEPT !.phase = "ready", !.keypair = "random"], "")
           ELSE ret([s EXCEPT !.phase = "failed"],
                    "velocity: generate keypair")
    /\ UNCHANGED LifeFrame

(* The calls of a Start that gets its nwep server: nwep.NewServer, then    *)
(* the OnStart callbacks.                                                  *)
StartCalls(s) ==
    << <<"NewServer", "nwep">> >>
    \o [i \in 1..Len(s.onStart) |-> <<"callback", s.onStart[i]>>]

(* Start running the OnStart callbacks before it creates the nwep server. *)
StartEager(serverOK) ==
    /\ srv.phase = "ready"
    /\ srv.nwep = "nil"
    /\ LET calls == Tail(StartCalls(srv))
                    \o (IF serverOK THEN << <<"NewServer", "nwep">> >>
                        ELSE << >>)
       IN  /\ srv' = [srv EXCEPT !.nwep = IF serverOK THEN "running" ELSE @,
                                 !.hist = @ \o calls]
           /\ obs' = [NoResult EXCEPT
                         !.op = "Start", !.pre = srv, !.seg = calls,
                         !.err = IF serverOK THEN ""
                                 ELSE "velocity: start server"]
    /\ UNCHANGED LifeFrame

(* Start *)
Start(serverOK) ==
    /\ srv.phase = "ready"
    /\ srv.nwep = "nil"
    /\ IF serverOK
       THEN /\ srv' = [srv EXCEPT !.nwep = "running",
                                  !.hist = @ \o StartCalls(srv)]
            /\ obs' = [NoResult EXCEPT !.op = "Start", !.pre = srv,
                                       !.seg = StartCalls(srv)]
       ELSE /\ srv' = srv
            /\ obs' = [NoResult EXCEPT !.op = "Start", !.pre = srv,
                                       !.err = "velocity: start server"]
    /\ UNCHANGED LifeFrame

(* The calls of Shutdown, in order: the callbacks, the nwep server, the    *)
(* resources the Server holds.                                             *)
ShutdownCalls(s) ==
    [i \in 1..Len(s.onShutdown) |-> <<"callback", s.onShutdown[i]>>]
    \o << <<"Shutdown", "nwep">> >>
    \o (IF s.logServer # "nil" THEN << <<"Free", "logServer">> >> ELSE << >>)
    \o (IF s.anchorServer # "nil" THEN << <<"Free", "anchorServer">> >>
        ELSE << >>)
    \o (IF s.trustStore # "nil" THEN << <<"Free", "trustStore">> >> ELSE << >>)

(* Shutdown that skips the OnShutdown callbacks. *)
ShutdownAbrupt(s) ==
    [s EXCEPT !.nwep = "closed",
              !.hist = @ \o SelectSeq(ShutdownCalls(s),
                                      LAMBDA e : e[1] # "callback"),
              !.freed = [k \in DOMAIN @ |->
                            IF s[k] # "nil" THEN @[k] + 1 ELSE @[k]],
              !.logServer = "nil", !.anchorServer = "nil",
              !.trustStore = "nil"]

(* Shutdown of a Server whose nwep field is not nil. *)
ShutdownStarted(s) ==
    [s EXCEPT !.nwep = "closed",
              !.hist = @ \o ShutdownCalls(s),
              !.freed = [k \in DOMAIN @ |->
                            IF s[k] # "nil" THEN @[k] + 1 ELSE @[k]],
              !.logServer = "nil", !.anchorServer = "nil",
              !.trustStore = "nil"]

(* What Shutdown makes of Server s. *)
ShutdownOf(s) == IF s.nwep = "nil" THEN s ELSE ShutdownStarted(s)

(* Shutdown *)
Shutdown ==
    /\ srv.phase = "ready"
    /\ srv.shutdowns < MaxShutdowns
    /\ LET s == ShutdownOf(srv)
       IN  /\ srv' = [s EXCEPT !.shutdowns = @ + 1]
           /\ obs' = [NoResult EXCEPT
                         !.op = "Shutdown", !.pre = srv,
                         !.seg = SubSeq(s.hist, Len(srv.hist) + 1, Len(s.hist))]
    /\ UNCHANGED LifeFrame

(* Server.URL and Server.Addr: what the nwep server reports once there is  *)
(* one, the empty string and the nil address before.                       *)
URL(s) == IF s.nwep # "nil" THEN "web://nwep" ELSE ""

Addr(s) == IF s.nwep # "nil" THEN "addr" ELSE "nil"

CallURL ==
    /\ srv.phase = "ready"
    /\ obs' = [NoResult EXCEPT !.op = "URL", !.val = URL(srv)]
    /\ UNCHANGED <<LifeFrame, srv>>

CallAddr ==
    /\ srv.phase = "ready"
    /\ obs' = [NoResult EXCEPT !.op = "Addr", !.val = Addr(srv)]
    /\ UNCHANGED <<LifeFrame, srv>>

(* Notify and NotifyWithOptions; nwepErr is what the nwep server returns. *)
Notify(op, nwepErr) ==
    /\ srv.phase = "ready"
    /\ obs' = IF srv.nwep = "nil"
              THEN [NoResult EXCEPT !.op = op, !.err = "ErrServerNotRunning"]
              ELSE [NoResult EXCEPT !.op = op, !.err = nwepErr, !.sent = TRUE]
    /\ UNCHANGED <<LifeFrame, srv>>

(* NotifyJSON *)
NotifyJSON(marshalOK, nwepErr) ==
    /\ srv.phase = "ready"
    /\ obs' = IF ~marshalOK
              THEN [NoResult EXCEPT !.op = "NotifyJSON", !.err = "json error"]
              ELSE IF srv.nwep = "nil"
              THEN [NoResult EXCEPT !.op = "NotifyJSON",
                                    !.err = "ErrServerNotRunning"]
              ELSE [NoResult EXCEPT !.op = "NotifyJSON", !.err = nwepErr,
                                    !.sent = TRUE]
    /\ UNCHANGED <<LifeFrame, srv>>

(* NotifyAll *)
NotifyAll ==
    /\ srv.phase = "ready"
    /\ obs' = [NoResult EXCEPT !.op = "NotifyAll", !.sent = srv.nwep # "nil"]
    /\ UNCHANGED <<LifeFrame, srv>>

(* NotifyAllJSON *)
NotifyAllJSON(marshalOK) ==
    /\ srv.phase = "ready"
    /\ obs' = IF ~marshalOK
              THEN [NoResult EXCEPT !.op = "NotifyAllJSON",
                                    !.err = "json error"]
              ELSE [NoResult EXCEPT !.op = "NotifyAllJSON",
                                    !.sent = srv.nwep # "nil"]
    /\ UNCHANGED <<LifeFrame, srv>>

(* ConnectionCount; n is what the nwep server reports. *)
ConnectionCount(n) ==
    /\ srv.phase = "ready"
    /\ obs' = [NoResult EXCEPT !.op = "ConnectionCount",
                               !.sent = srv.nwep # "nil",
                               !.count = IF srv.nwep = "nil" THEN 0 ELSE n]
    /\ UNCHANGED <<LifeFrame, srv>>

(* ConnectedPeers; ps is what the nwep server reports. *)
ConnectedPeers(ps) ==
    /\ srv.phase = "ready"
    /\ obs' = [NoResult EXCEPT !.op = "ConnectedPeers",
                               !.sent = srv.nwep # "nil",
                               !.peers = IF srv.nwep = "nil" THEN << >> ELSE ps]
    /\ UNCHANGED <<LifeFrame, srv>>

(* What the nwep server may return to a call that reaches it. *)
NwepErrors == {"", "nwep error"}

NwepCounts == {0, 1}

NwepPeers == {<< >>, <<"p1">>}

(* The option lists of the Servers that are started and shut down: the     *)
(* resources handed over, the OnShutdown callbacks, the OnStart callbacks. *)
LifeOptionLists ==
    { Pick(ResourceOptions, R) \o cb \o st :
        R \in SUBSET (1..Len(ResourceOptions)),
        cb \in SeqsUpTo({"OnShutdown1", "OnShutdown2"}, MaxCallbacks),
        st \in {<< >>, <<"OnStart">>, <<"OnStart", "OnStart2">>,
                <<"OnStart2", "OnStart">>} }

NextNew ==
    \E opts \in SeqsUpTo(Options, MaxOpts), initOK, genOK \in BOOLEAN :
        New(opts, initOK, genOK)

SpecNew == InitLife /\ [][NextNew]_vars

NextLife ==
    \/ \E opts \in LifeOptionLists, initOK, genOK \in BOOLEAN :
          New(opts, initOK, genOK)
    \/ \E serverOK \in BOOLEAN : Start(serverOK)
    \/ Shutdown
    \/ \E op \in {"Notify", "NotifyWithOptions"}, e \in NwepErrors :
          Notify(op, e)
    \/ \E marshalOK \in BOOLEAN, e \in NwepErrors : NotifyJSON(marshalOK, e)
    \/ NotifyAll
    \/ \E marshalOK \in BOOLEAN : NotifyAllJSON(marshalOK)
    \/ CallURL
    \/ CallAddr
    \/ \E n \in NwepCounts : ConnectionCount(n)
    \/ \E ps \in NwepPeers : ConnectedPeers(ps)

SpecLife == InitLife /\ [][NextLife]_vars

-----------------------------------------------------------------------------
(* Peer access control and identity verification *)

(* nwep.NodeID{} *)
ZeroNodeID == "zero"

NodeIDs == {ZeroNodeID, "p1", "p2"}

(* Request.Conn: nil, a connection whose peer has not authenticated, or a  *)
(* connection of an authenticated peer, named by its node ID.              *)
Conns == {"nil", "unauthenticated", "p1", "p2"}

(* Context.PeerNodeID *)
PeerNodeID(conn) ==
    IF conn = "nil" THEN ZeroNodeID
    ELSE IF conn = "unauthenticated" THEN ZeroNodeID
    ELSE conn

(* NodeID.IsZero *)
IsZero(id) == id = ZeroNodeID

(* What TrustStore.LookupIdentity may return: identity and error. *)
Lookups == [vi : {"nil", "identity"}, err : BOOLEAN]

(* The middleware lists of the protected routes. *)
AccessChains ==
    { <<"RequirePeer", "AllowPeers">>, <<"AllowPeers">>, <<"RequirePeer">>,
      <<"TrustVerify">>, <<"TrustVerify", "RequirePeer", "AllowPeers">> }

(* A request as the composed handler sees it, and what the call has done   *)
(* so far: the store of its Context, the responses written, the frames     *)
(* entered, the identity the handler read, the error returned.             *)
Call0(conn, allowed, lookup, herr) ==
    [conn |-> conn, allowed |-> allowed, lookup |-> lookup, herr |-> herr,
     store |-> << >>, resp |-> << >>, calls |-> << >>, seen |-> "none",
     ret |-> FALSE]

(* VerifiedIdentity *)
VerifiedIdentity(st) ==
    IF contextKeyVerifiedIdentity \in DOMAIN st.store
    THEN st.store[contextKeyVerifiedIdentity]
    ELSE "nil"

Respond(st, status, msg) ==
    [st EXCEPT !.resp = Append(@, <<status, msg>>), !.ret = FALSE]

(* The handler of the route: reads the verified identity, answers, and     *)
(* returns its error.                                                      *)
AccessHandler(st) ==
    [Respond([st EXCEPT !.seen = VerifiedIdentity(st)], "ok", "body")
        EXCEPT !.ret = st.herr]

(* RequirePeer that lets every request through. *)
RequirePeerOpen(st) == [next |-> TRUE, st |-> st]

(* RequirePeer: whether next is called, and the call after this frame. *)
RequirePeer(st) ==
    IF IsZero(PeerNodeID(st.conn))
    THEN [next |-> FALSE,
          st |-> Respond(st, "unauthorized", "peer identity required")]
    ELSE [next |-> TRUE, st |-> st]

(* AllowPeers *)
AllowPeers(st) ==
    IF PeerNodeID(st.conn) \notin st.allowed
    THEN [next |-> FALSE, st |-> Respond(st, "forbidden", "peer not allowed")]
    ELSE [next |-> TRUE, st |-> st]

(* TrustVerify that stores whatever identity the lookup returned. *)
TrustVerifyLax(st) ==
    [next |-> TRUE,
     st |-> IF ~IsZero(PeerNodeID(st.conn))
            THEN [st EXCEPT !.store =
                     contextKeyVerifiedIdentity :> st.lookup.vi @@ @]
            ELSE st]

(* TrustVerify *)
TrustVerify(st) ==
    [next |-> TRUE,
     st |-> IF ~IsZero(PeerNodeID(st.conn))
               /\ ~st.lookup.err /\ st.lookup.vi # "nil"
            THEN [st EXCEPT !.store =
                     contextKeyVerifiedIdentity :> st.lookup.vi @@ @]
            ELSE st]

(* The composed handler applyMiddleware builds from the chain, called from *)
(* frame i on.                                                             *)
RECURSIVE RunChain(_, _, _)
RunChain(chain, i, st) ==
    IF i > Len(chain)
    THEN AccessHandler([st EXCEPT !.calls = Append(@, "handler")])
    ELSE LET in == [st EXCEPT !.calls = Append(@, chain[i])]
             r == CASE chain[i] = "RequirePeer" -> RequirePeer(in)
                    [] chain[i] = "AllowPeers" -> AllowPeers(in)
                    [] chain[i] = "TrustVerify" -> TrustVerify(in)
         IN  IF r.next THEN RunChain(chain, i + 1, r.st) ELSE r.st

InitAccess ==
    /\ exact = << >>
    /\ prefixes = << >>
    /\ notFound = NilHandler
    /\ mw = << >>
    /\ groups = << >>
    /\ req = << >>
    /\ found = NilHandler
    /\ owner = << >>
    /\ powner = << >>
    /\ last = NoCall
    /\ nfCall = NoCall
    /\ uses = << >>
    /\ lineage = << >>
    /\ ctxs = << >>
    /\ ctxPool = {}
    /\ composed = << >>
    /\ fl = << >>
    /\ alive = TRUE
    /\ srv = NilServer
    /\ mem = NoMemory
    /\ obs = [op |-> "none", chain |-> << >>,
              out |-> Call0("nil", {}, [vi |-> "nil", err |-> FALSE], FALSE)]
    /\ trace = << >>

(* A request through the handler composed from the chain. *)
AccessServe(chain, conn, allowed, lookup, herr) ==
    /\ obs' = [op |-> "serve", chain |-> chain,
               out |-> RunChain(chain, 1, Call0(conn, allowed, lookup, herr))]
    /\ UNCHANGED <<LifeFrame, srv>>

NextAccess ==
    \E chain \in AccessChains, conn \in Conns, allowed \in SUBSET NodeIDs,
       lookup \in Lookups, herr \in BOOLEAN :
        AccessServe(chain, conn, allowed, lookup, herr)

SpecAccess == InitAccess /\ [][NextAccess]_vars

-----------------------------------------------------------------------------
(* Decorator slices and their backing arrays *)

MaxSlices == 4

(* A cell of a backing array beyond the length of every slice over it. *)
Unset == "_"

(* The nil slice. *)
NilSlice == [arr |-> 0, len |-> 0]

(* The elements of slice s, and its capacity. *)
Elems(m, s) == IF s.arr = 0 THEN << >> ELSE SubSeq(m.heap[s.arr], 1, s.len)

Capacity(m, s) == IF s.arr = 0 THEN 0 ELSE Len(m.heap[s.arr])

(* A new backing array holding vals, with spare cells after them. *)
Allocate(m, vals, spare) ==
    [m |-> [m EXCEPT !.heap = Append(@, vals \o [i \in 1..spare |-> Unset])],
     s |-> [arr |-> Len(m.heap) + 1, len |-> Len(vals)]]

(* append(a, vals...): in place while the capacity of a allows, else into  *)
(* a new array, whose capacity the runtime rounds up by spare cells.       *)
goAppend(m, a, vals, spare) ==
    IF vals = << >> THEN [m |-> m, s |-> a]
    ELSE IF a.len + Len(vals) <= Capacity(m, a)
    THEN [m |-> [m EXCEPT !.heap[a.arr] =
                    [k \in 1..Len(@) |->
                        IF k > a.len /\ k <= a.len + Len(vals)
                        THEN vals[k - a.len] ELSE @[k]]],
          s |-> [arr |-> a.arr, len |-> a.len + Len(vals)]]
    ELSE Allocate(m, Elems(m, a) \o vals, spare)

(* combineMW written as append(a, b...). *)
appendIn(m, a, b) == goAppend(m, a, Elems(m, b), 0)

(* combineMW on slices: make, then two copies. *)
combineMWIn(m, a, b) == Allocate(m, Elems(m, a) \o Elems(m, b), 0)

(* A slice the model follows: its header, who holds it, the slices it was  *)
(* combined from (the parent group, for a sub-group or a route registered  *)
(* through a group), and for the slice of a Find call the elements it had  *)
(* when combined and the elements applyMiddleware read from it.            *)
Slice(s, kind, args, want) ==
    [arr |-> s.arr, len |-> s.len, kind |-> kind, args |-> args,
     want |-> want, got |-> << >>, done |-> FALSE]

(* The variadic parameter mw of a call: the caller's slice i itself when    *)
(* the call spreads it (i > 0), else a new slice of the listed arguments,  *)
(* nil when there are none.                                                *)
PassArgs(m, i, elems) ==
    IF i > 0 THEN [m |-> m, s |-> [arr |-> m.refs[i].arr, len |-> m.refs[i].len]]
    ELSE IF elems = << >> THEN [m |-> m, s |-> NilSlice]
    ELSE Allocate(m, elems, 0)

ArgElems == { << >>, <<"A">>, <<"B">> }

InitHeap ==
    /\ exact = << >>
    /\ prefixes = << >>
    /\ notFound = NilHandler
    /\ mw = << >>
    /\ groups = << >>
    /\ req = << >>
    /\ found = NilHandler
    /\ owner = << >>
    /\ powner = << >>
    /\ last = NoCall
    /\ nfCall = NoCall
    /\ uses = << >>
    /\ lineage = << >>
    /\ ctxs = << >>
    /\ ctxPool = {}
    /\ composed = << >>
    /\ fl = << >>
    /\ alive = TRUE
    /\ srv = NilServer
    /\ obs = NoObservation
    /\ mem = [heap |-> << >>, refs |-> << >>, global |-> NilSlice,
              op |-> <<"none", 0>>]
    /\ trace = << >>

HeapFrame == <<exact, prefixes, notFound, mw, groups, req, found, owner,
               powner, last, nfCall, uses, lineage, ctxs, ctxPool, composed,
               fl, alive, srv, obs, trace>>

Room == Len(mem.refs) < MaxSlices

(* The call has made slice r.s in memory r.m; the model follows it. *)
Made(name, r, kind, args, want) ==
    mem' = [r.m EXCEPT !.refs = Append(@, Slice(r.s, kind, args, want)),
                       !.op = <<name, Len(mem.refs) + 1>>]

Spreadable(i) == i = 0 \/ (i \in 1..Len(mem.refs) /\ mem.refs[i].kind = "caller")

(* The caller builds a slice of decorators. *)
CallerMake(elems, spare) ==
    /\ Room
    /\ Made("make", Allocate(mem, elems, spare), "caller", << >>, << >>)
    /\ UNCHANGED HeapFrame

(* The caller overwrites element k of a slice it holds. *)
CallerOverwrite(t, k) ==
    /\ mem.refs[t].kind \in {"caller", "combined"}
    /\ k \in 1..mem.refs[t].len
    /\ mem' = [mem EXCEPT !.heap[mem.refs[t].arr][k] = "X",
                          !.op = <<"overwrite", t>>]
    /\ UNCHANGED HeapFrame

(* The caller appends to a slice it holds: s = append(s, d). *)
CallerAppend(t, spare) ==
    /\ mem.refs[t].kind \in {"caller", "combined"}
    /\ mem.refs[t].len < 2
    /\ LET r == goAppend(mem, mem.refs[t], <<"Y">>, spare)
       IN  mem' = [r.m EXCEPT !.refs[t].arr = r.s.arr, !.refs[t].len = r.s.len,
                              !.op = <<"append", t>>]
    /\ UNCHANGED HeapFrame

(* combineMW called on two slices of the caller. *)
CombineMem(i, j) ==
    /\ Room
    /\ mem.refs[i].kind = "caller"
    /\ mem.refs[j].kind = "caller"
    /\ Made("combineMW", combineMWIn(mem, mem.refs[i], mem.refs[j]),
            "combined", <<i, j>>, Elems(mem, mem.refs[i]) \o Elems(mem, mem.refs[j]))
    /\ UNCHANGED HeapFrame

(* Server.Use: s.mw = append(s.mw, mw...) *)
UseMem(elems, spare) ==
    /\ mem.global.len < 2
    /\ LET r == goAppend(mem, mem.global, elems, spare)
       IN  mem' = [r.m EXCEPT !.global = r.s, !.op = <<"Use", 0>>]
    /\ UNCHANGED HeapFrame

(* Router.Group *)
RouterGroupMem(i, elems) ==
    /\ Room
    /\ Spreadable(i)
    /\ Made("Group", PassArgs(mem, i, elems), "group", << >>, << >>)
    /\ UNCHANGED HeapFrame

(* Group.Group building the middleware of the sub-group with append. *)
GroupGroupAppend(g, i, elems) ==
    /\ Room
    /\ Spreadable(i)
    /\ mem.refs[g].kind = "group"
    /\ LET a == PassArgs(mem, i, elems)
       IN  Made("Group", appendIn(a.m, mem.refs[g], a.s), "group", <<g>>, << >>)
    /\ UNCHANGED HeapFrame

(* Group.Group *)
GroupGroupMem(g, i, elems) ==
    /\ Room
    /\ Spreadable(i)
    /\ mem.refs[g].kind = "group"
    /\ LET a == PassArgs(mem, i, elems)
       IN  Made("Group", combineMWIn(a.m, mem.refs[g], a.s), "group", <<g>>,
                << >>)
    /\ UNCHANGED HeapFrame

(* Router.Handle, Router.Method, Router.HandlePrefix: the route keeps mw. *)
RouterHandleMem(i, elems) ==
    /\ Room
    /\ Spreadable(i)
    /\ Made("Handle", PassArgs(mem, i, elems), "route", << >>, << >>)
    /\ UNCHANGED HeapFrame

(* Group.Handle, Group.Method, Group.HandlePrefix: the combined slice is    *)
(* spread into the Router's method.                                        *)
GroupHandleMem(g, i, elems) ==
    /\ Room
    /\ Spreadable(i)
    /\ mem.refs[g].kind = "group"
    /\ LET a == PassArgs(mem, i, elems)
       IN  Made("Handle", combineMWIn(a.m, mem.refs[g], a.s), "route", <<g>>,
                << >>)
    /\ UNCHANGED HeapFrame

(* Find combining the global middleware and the route's with append. *)
FindCombineInPlace(r) ==
    /\ Room
    /\ mem.refs[r].kind = "route"
    /\ Made("Find", appendIn(mem, mem.global, mem.refs[r]), "chain", << >>,
            Elems(mem, mem.global) \o Elems(mem, mem.refs[r]))
    /\ UNCHANGED HeapFrame

(* Find on a route: combineMW(globalMW, r.middleware). *)
FindCombine(r) ==
    /\ Room
    /\ mem.refs[r].kind = "route"
    /\ Made("Find", combineMWIn(mem, mem.global, mem.refs[r]), "chain", << >>,
            Elems(mem, mem.global) \o Elems(mem, mem.refs[r]))
    /\ UNCHANGED HeapFrame

(* Find on a route: applyMiddleware reads the combined slice. *)
FindApply(c) ==
    /\ mem.refs[c].kind = "chain"
    /\ ~mem.refs[c].done
    /\ mem' = [mem EXCEPT !.refs[c].got = Elems(mem, mem.refs[c]),
                          !.refs[c].done = TRUE,
                          !.op = <<"Find", c>>]
    /\ UNCHANGED HeapFrame

(* combineMW has returned to a caller that still holds its slices. *)
Combined == \E c \in 1..Len(mem.refs) : mem.refs[c].kind = "combined"

(* One call of combineMW on the caller's two slices, or on one of them     *)
(* twice, and what the caller does with the slices before and afterwards.  *)
NextCombineMem ==
    \/ \E spare \in 0..1 : Len(mem.refs) < 2 /\ CallerMake(<<"A">>, spare)
    \/ \E i, j \in 1..Len(mem.refs) : ~Combined /\ CombineMem(i, j)
    \/ \E t \in 1..Len(mem.refs), k \in 1..2 : CallerOverwrite(t, k)
    \/ \E t \in 1..Len(mem.refs), spare \in 0..1 : CallerAppend(t, spare)

SpecCombineMem == InitHeap /\ [][NextCombineMem]_vars

(* Groups and routes created from slices the caller keeps and overwrites. *)
NextGroupMem ==
    \/ \E spare \in 0..1 : CallerMake(<<"A">>, spare)
    \/ \E i \in 0..Len(mem.refs), elems \in {<< >>, <<"B">>} :
          RouterGroupMem(i, elems)
    \/ \E g \in 1..Len(mem.refs), i \in 0..Len(mem.refs),
          elems \in {<< >>, <<"B">>} : GroupGroupMem(g, i, elems)
    \/ \E i \in 0..Len(mem.refs), elems \in {<< >>, <<"B">>} :
          RouterHandleMem(i, elems)
    \/ \E g \in 1..Len(mem.refs), i \in 0..Len(mem.refs),
          elems \in {<< >>, <<"B">>} : GroupHandleMem(g, i, elems)
    \/ \E t \in 1..Len(mem.refs) : CallerOverwrite(t, 1)

SpecGroupMem == InitHeap /\ [][NextGroupMem]_vars

(* Find calls in progress side by side on registered routes. *)
NextFindMem ==
    \/ \E spare \in 0..1 : UseMem(<<"G">>, spare)
    \/ \E elems \in ArgElems : RouterHandleMem(0, elems)
    \/ \E r \in 1..Len(mem.refs) : FindCombine(r)
    \/ \E c \in 1..Len(mem.refs) : FindApply(c)

SpecFindMem == InitHeap /\ [][NextFindMem]_vars

-----------------------------------------------------------------------------
(* Route resolution: C1 - C8 *)

Requests == ReqPaths \X Methods \X GlobalArgs

(* The handler chain a route is expected to resolve to: the global          *)
(* decorators, then the route's own, then the handler.                      *)
Chain(r, g) == g \o r.middleware \o r.handler

NoExactEntry(path, method) ==
    /\ CompositeKey(method, path) \notin DOMAIN exact
    /\ path \notin DOMAIN exact

MatchingPrefixes(path) ==
    {i \in 1..Len(prefixes) : HasPrefix(path, prefixes[i].prefix)}

LongestMatching(path) ==
    {i \in MatchingPrefixes(path) :
        \A j \in MatchingPrefixes(path) :
            Len(prefixes[j].prefix) <= Len(prefixes[i].prefix)}

FirstOf(S) == CHOOSE i \in S : \A j \in S : i <= j

C1_Expected(path, method, g) ==
    IF CompositeKey(method, path) \in DOMAIN exact
    THEN {Chain(exact[CompositeKey(method, path)], g)}
    ELSE IF path \in DOMAIN exact
    THEN {Chain(exact[path], g)}
    ELSE IF MatchingPrefixes(path) # {}
    THEN {Chain(prefixes[i].route, g) : i \in LongestMatching(path)}
    ELSE IF notFound # NilHandler
    THEN {g \o notFound}
    ELSE {NilHandler}

\* C1: in every router state and for every (path, method), Find resolves to
\* the entry under the composite key if there is one, otherwise to the entry
\* under the path, otherwise to a route with the longest registered prefix
\* that is a literal prefix of the path, otherwise to the not-found handler.
C1_TierPrecedence ==
    \A q \in Requests : RouterFind(q[1], q[2], q[3]) \in C1_Expected(q[1], q[2], q[3])

\* C2: when no exact entry matches and two prefix routes of different
\* lengths both match the path, Find resolves to a route of the greatest
\* matching length, whatever the order of the HandlePrefix calls.
C2_LongerPrefixWins ==
    \A q \in Requests :
        \A i, j \in MatchingPrefixes(q[1]) :
            ( /\ NoExactEntry(q[1], q[2])
              /\ Len(prefixes[i].prefix) > Len(prefixes[j].prefix)
              /\ i \in LongestMatching(q[1]) )
            => RouterFind(q[1], q[2], q[3])
                 \in {Chain(prefixes[k].route, q[3]) : k \in LongestMatching(q[1])}

\* C2 witness: "/ab" was registered before "/a" with a different route, and
\* Find("/ab/x") returned the chain of the "/ab" route.
C2_Witness ==
    /\ Len(prefixes) = 2
    /\ prefixes[1].prefix = <<"/", "a", "b">>
    /\ prefixes[2].prefix = <<"/", "a">>
    /\ req # << >>
    /\ req[1] = PAbx
    /\ found = Chain(prefixes[1].route, req[3])
    /\ found # Chain(prefixes[2].route, req[3])

\* C3: HandlePrefix only appends (every step keeps the existing prefix
\* entries, in place and unchanged), and when no exact entry matches and
\* several matching prefix entries tie for the greatest length, Find resolves
\* to the one registered first.
C3_AppendOnlyFirstOfTie ==
    /\ [][ /\ Len(prefixes') >= Len(prefixes)
           /\ SubSeq(prefixes', 1, Len(prefixes)) = prefixes ]_vars
    /\ [](\A q \in Requests :
            (NoExactEntry(q[1], q[2]) /\ Cardinality(LongestMatching(q[1])) >= 2)
            => RouterFind(q[1], q[2], q[3])
                 = Chain(prefixes[FirstOf(LongestMatching(q[1]))].route, q[3]))

\* C4: after a Handle (or Method) call that replaced an entry under the same
\* key, the entry is the route of that call, and Find for that path (and
\* method) resolves to the new handler wrapped with the global decorators and
\* the new decorators only.
C4_LastWriteWins ==
    /\ (last.op = "Handle" /\ last.old # NoRoute) =>
          /\ exact[last.path] =
                [handler |-> last.handler, middleware |-> last.middleware]
          /\ \A m \in Methods, g \in GlobalArgs :
                CompositeKey(m, last.path) \notin DOMAIN exact
                => RouterFind(last.path, m, g) = g \o last.middleware \o last.handler
    /\ (last.op = "Method" /\ last.old # NoRoute) =>
          /\ exact[CompositeKey(last.method, last.path)] =
                [handler |-> last.handler, middleware |-> last.middleware]
          /\ \A g \in GlobalArgs :
                RouterFind(last.path, last.method, g)
                    = g \o last.middleware \o last.handler

\* C4 witness: Handle replaced a route that had decorators by a route with
\* another handler, and Find returned the new handler under the globals only.
C4_Witness ==
    /\ last.op = "Handle"
    /\ last.old # NoRoute
    /\ last.old.handler # last.handler
    /\ last.old.middleware # << >>
    /\ last.middleware = << >>
    /\ req # << >>
    /\ req[1] = last.path
    /\ req[3] # << >>
    /\ found = req[3] \o last.handler

\* C5: a route registered with Method(m, p, h) is selected by an exact-match
\* tier of Find(path, method) only when path = p and method = m.
C5_MethodRouteNeedsBoth ==
    \A q \in Requests :
        LET l == RouterLookup(q[1], q[2]) IN
        (l.tier \in {"method", "path"} /\ owner[l.key].op = "Method")
        => (q[1] = owner[l.key].path /\ q[2] = owner[l.key].method)

\* C6: whenever no exact entry matches and some registered prefix, of any
\* length, is a literal prefix of the path, Find resolves to a prefix route.
C6_PrefixServesAllPaths ==
    \A q \in Requests :
        (NoExactEntry(q[1], q[2]) /\ MatchingPrefixes(q[1]) # {})
        => /\ RouterLookup(q[1], q[2]).tier = "prefix"
           /\ RouterFind(q[1], q[2], q[3])
                \in {Chain(prefixes[i].route, q[3]) : i \in MatchingPrefixes(q[1])}

\* C7: Find returns the nil handler exactly when no exact entry and no prefix
\* entry matches the (path, method) pair and no not-found handler is set.
C7_AbsentIff ==
    \A q \in Requests :
        (RouterFind(q[1], q[2], q[3]) = NilHandler)
        <=> ( /\ NoExactEntry(q[1], q[2])
              /\ MatchingPrefixes(q[1]) = {}
              /\ nfCall = NoCall )

\* C8: when Find falls through to the not-found handler, it returns the
\* handler of the latest SetNotFound call wrapped in exactly the global
\* decorators, in order.
C8_NotFoundChain ==
    \A q \in Requests :
        (RouterLookup(q[1], q[2]).tier = "none" /\ nfCall # NoCall)
        => RouterFind(q[1], q[2], q[3]) = q[3] \o nfCall.handler

\* C8 witness: a route with decorators is registered, SetNotFound replaced an
\* earlier, different handler, and Find fell through with two globals.
C8_Witness ==
    /\ \E k \in DOMAIN exact : exact[k].middleware # << >>
    /\ nfCall # NoCall
    /\ nfCall.old # NilHandler
    /\ nfCall.old # nfCall.handler
    /\ req # << >>
    /\ Len(req[3]) = 2
    /\ RouterLookup(req[1], req[2]).tier = "none"
    /\ found = req[3] \o nfCall.handler

-----------------------------------------------------------------------------
(* Decorator order: C9 - C10 *)

RECURSIVE Flatten(_)
Flatten(ss) == IF ss = << >> THEN << >> ELSE Head(ss) \o Flatten(Tail(ss))

(* The way in: every decorator of ds in order, then the handler. *)
WayIn(ds, h) ==
    [i \in 1..(Len(ds) + 1) |->
        IF i <= Len(ds) THEN <<ds[i], "before">> ELSE <<h, "run">>]

(* The whole call: the way in, then the decorators of ds in reverse. *)
InAndOut(ds, h) ==
    [i \in 1..(2 * Len(ds) + 1) |->
        IF i <= Len(ds) THEN <<ds[i], "before">>
        ELSE IF i = Len(ds) + 1 THEN <<h, "run">>
        ELSE <<ds[2 * Len(ds) + 2 - i], "after">>]

\* C9: a request dispatched to a route registered through a group runs, on
\* the way in, the global decorators in Use order, then the decorators of
\* the outermost group, then those of each inner group, then the call-site
\* decorators, then the handler.
C9_GroupDecoratorOrder ==
    req # << >> =>
        LET l == RouterLookup(req[1], req[2]) IN
        l.tier # "none" =>
            LET prov == IF l.tier = "prefix" THEN powner[l.index] ELSE owner[l.key]
                r == IF l.tier = "prefix" THEN prefixes[l.index].route ELSE exact[l.key]
            IN  prov.group # 0 =>
                    LET ds == Flatten(uses) \o Flatten(lineage[prov.group].mws)
                                             \o prov.callsite
                    IN  /\ Len(trace) >= Len(ds) + 1
                        /\ SubSeq(trace, 1, Len(ds) + 1) = WayIn(ds, r.handler[1])

\* C9 witness: two Use calls with different decorators, a group nested in a
\* group with different decorators, a route registered through the inner
\* group with two call-site decorators, and a request dispatched to it.
C9_Witness ==
    /\ req # << >>
    /\ uses = << <<"G2", "G3">>, <<"G1">> >>
    /\ RouterLookup(req[1], req[2]).tier = "path"
    /\ LET prov == owner[req[1]] IN
          /\ prov.group # 0
          /\ lineage[prov.group].mws = << <<"M1">>, <<"M2">> >>
          /\ prov.callsite = <<"A", "B">>
    /\ trace = InAndOut(<<"G2", "G3", "G1", "M1", "M2", "A", "B">>, "h2")

\* C10: with decorators that each call their inner handler once, the
\* composed handler runs them first to last on the way in, then the handler,
\* then last to first on the way out; with no decorators applyMiddleware
\* returns the handler itself.
C10_CompositionOrder ==
    /\ (composed.stage # "args" /\ composed.mw = << >>)
          => composed.out = composed.h
    /\ ( /\ composed.stage = "called"
         /\ \A i \in 1..Len(composed.mw) : composed.mw[i] \notin ShortCircuit )
          => trace = InAndOut(composed.mw, composed.h[1])

\* C10 witness: [A, B, C] around h1 was composed and called.
C10_Witness ==
    /\ composed.stage = "called"
    /\ composed.mw = <<"A", "B", "C">>
    /\ composed.h = <<"h1">>
    /\ trace = << <<"A", "before">>, <<"B", "before">>, <<"C", "before">>,
                  <<"h1", "run">>,
                  <<"C", "after">>, <<"B", "after">>, <<"A", "after">> >>

-----------------------------------------------------------------------------
(* Short-circuit, group paths: C11 - C12 *)

(* The position of the first short-circuiting decorator of ds, 0 if none. *)
FirstStop(ds) ==
    IF \E i \in 1..Len(ds) : ds[i] \in ShortCircuit
    THEN CHOOSE i \in 1..Len(ds) :
            /\ ds[i] \in ShortCircuit
            /\ \A j \in 1..(i - 1) : ds[j] \notin ShortCircuit
    ELSE 0

(* The call when the decorator at position i answers without calling next: *)
(* positions 1..i-1 on the way in, the answer of i, i-1..1 on the way out. *)
StoppedAt(ds, i) ==
    [k \in 1..(2 * i - 1) |->
        IF k < i THEN <<ds[k], "before">>
        ELSE IF k = i THEN <<ds[i], "reject">>
        ELSE <<ds[2 * i - k], "after">>]

\* C11: when the decorator at position i of a composed chain returns without
\* calling its inner handler, nothing at a position greater than i runs and
\* the terminal handler does not run: the call consists of the decorators
\* before i on the way in, the answer written at i, and the same decorators
\* on the way out.
C11_ShortCircuit ==
    (composed.stage = "called" /\ FirstStop(composed.mw) # 0) =>
        LET i == FirstStop(composed.mw) IN
        /\ trace = StoppedAt(composed.mw, i)
        /\ \A k \in 1..Len(trace) : trace[k][2] # "run"
        /\ Cardinality({k \in 1..Len(trace) : trace[k][2] = "reject"}) = 1

\* C11 witness: [A, S, B] around h1 was called; S answered, B and h1 did
\* not run, A finished its after-phase.
C11_Witness ==
    /\ composed.stage = "called"
    /\ composed.mw = <<"A", "S", "B">>
    /\ trace = << <<"A", "before">>, <<"S", "reject">>, <<"A", "after">> >>

(* The path a registration through group g is expected to be stored under: *)
(* the prefixes of the enclosing groups, outermost first, then sub.         *)
GroupPath(g, sub) == Flatten(lineage[g].prefixes) \o sub

\* C12: a route registered through a group is stored under the prefixes of
\* all enclosing groups, outermost first, followed by the call-site path
\* (for Group.Method under method+" "+ that path, for Group.HandlePrefix as
\* that prefix), and Find for that path resolves to it.
C12_GroupPathConcat ==
    /\ \A k \in DOMAIN exact :
          owner[k].group # 0 =>
             LET full == GroupPath(owner[k].group, owner[k].sub)
                 chain == applyMiddleware(exact[k].handler, exact[k].middleware)
             IN  IF owner[k].op = "Method"
                 THEN /\ k = CompositeKey(owner[k].method, full)
                      /\ RouterFind(full, owner[k].method, << >>) = chain
                 ELSE /\ k = full
                      /\ \A m \in Methods :
                            CompositeKey(m, full) \notin DOMAIN exact
                               => RouterFind(full, m, << >>) = chain
    /\ \A i \in 1..Len(prefixes) :
          powner[i].group # 0 =>
             prefixes[i].prefix = GroupPath(powner[i].group, powner[i].sub)

\* C12 witness: a group "/b" created inside the group "/a", a route
\* registered through it at "/x", and a request for "/a/b/x" dispatched to
\* its handler.
C12_Witness ==
    /\ req # << >>
    /\ req[1] = <<"/", "a", "/", "b", "/", "x">>
    /\ req[1] \in DOMAIN exact
    /\ owner[req[1]].group # 0
    /\ lineage[owner[req[1]].group].prefixes = << <<"/", "a">>, <<"/", "b">> >>
    /\ owner[req[1]].sub = PX
    /\ Len(trace) > 0
    /\ \E k \in 1..Len(trace) : trace[k] = <<exact[req[1]].handler[1], "run">>

-----------------------------------------------------------------------------
(* Context pool and dispatcher: C13 - C20 *)

(* The requests that hold a Context: acquireContext has returned and       *)
(* releaseContext has not completed.                                        *)
Holding == {r \in 1..Len(fl) : fl[r].pc \in {"find", "run", "release", "put"}}

(* The requests whose handler step is over. *)
Handled == {r \in 1..Len(fl) :
               fl[r].pc \in {"release", "put", "done", "unwound", "escaped"}}

(* The requests whose deferred releaseContext has returned. *)
Left == {r \in 1..Len(fl) : fl[r].pc \in {"done", "unwound", "escaped"}}

\* C13: a Context that was bound, written to with Set and released is, when
\* acquired again, bound to the new request's ResponseWriter, Request and
\* server only, and its store is empty: Get reports the key as not set.
C13_ReacquiredIsFresh ==
    \A r \in 1..Len(fl) :
        fl[r].pc = "find" =>
            /\ ctxs[fl[r].ctx] = [Response |-> r, Request |-> r, server |-> "s",
                                  store |-> << >>]
            /\ CtxGet(fl[r].ctx, StoreKey) = Absent

\* C13 witness: request 1 ran the Set decorator and its handler read the
\* value, its Context went back to the pool, and request 2 has just
\* acquired that same Context.
C13_Witness ==
    /\ Len(fl) = 2
    /\ fl[1].pc = "done"
    /\ fl[1].seen = <<1>>
    /\ fl[2].pc = "find"
    /\ fl[2].ctx = fl[1].ctx

\* C14: for every request, whatever the outcome of the handler step (nil,
\* an error, a panic, no route), releaseContext has run exactly once when
\* the dispatcher is left and not before the handler step is over; and
\* every Context in the pool has Request, Response, server and store
\* cleared.
C14_ReleasedOnceAndCleared ==
    /\ \A c \in ctxPool : ctxs[c] = NilContext
    /\ \A r \in 1..Len(fl) :
          fl[r].released = IF r \in Left THEN 1 ELSE 0

\* C14 witness: a request whose handler panicked with no Recover in the
\* chain has left the dispatcher, released once, and its Context is idle
\* in the pool.
C14_Witness ==
    \E r \in 1..Len(fl) :
        /\ fl[r].pc = "unwound"
        /\ fl[r].mode = "panic"
        /\ fl[r].released = 1
        /\ fl[r].ctx \in ctxPool

\* C15: no Context is held by two requests at the same time: between the
\* return of acquireContext and the end of releaseContext the Context of a
\* request is the Context of no other request.
C15_ExclusiveContext ==
    \A r1 \in Holding, r2 \in Holding :
        r1 # r2 => fl[r1].ctx # fl[r2].ctx

\* C15 witness: two requests are running their handlers at the same time,
\* each on its own Context.
C15_Witness ==
    /\ Len(fl) = 2
    /\ fl[1].pc = "run"
    /\ fl[2].pc = "run"
    /\ fl[1].ctx # fl[2].ctx

(* Whether the composed handler h calls Set before its terminal handler. *)
SetsKey(h) == \E i \in 1..(Len(h) - 1) : h[i] = SetterMW

\* C16: what Get returns in a request is the value that request Set
\* earlier in its chain, or not-set when it Set none; never a value of
\* another request, concurrent or earlier on the same Context.
C16_StoreIsolation ==
    \A r \in 1..Len(fl) :
        \A i \in 1..Len(fl[r].seen) :
            fl[r].seen[i] = IF SetsKey(fl[r].h) THEN r ELSE Absent

\* C16 witness: request 1 Set the key and read it back; request 2, on the
\* same pooled Context and with no Set in its chain, read the key as not
\* set.
C16_Witness ==
    /\ Len(fl) = 2
    /\ fl[1].seen = <<1>>
    /\ fl[2].ctx = fl[1].ctx
    /\ fl[2].seen = <<Absent>>

\* C17: when Find returns nil for a request, the dispatcher writes exactly
\* one response, "not_found" with body "not found", runs no decorator and
\* no handler, logs nothing, and releases the Context.
C17_DefaultNotFound ==
    \A r \in 1..Len(fl) :
        ( /\ fl[r].pc \notin {"acquire", "find"}
          /\ RouterFind(fl[r].path, fl[r].method, mw) = NilHandler )
        =>  /\ fl[r].resp = << <<"not_found", "not found">> >>
            /\ fl[r].events = << >>
            /\ fl[r].log = << >>
            /\ fl[r].pc \in {"release", "put", "done"}
            /\ fl[r].pc = "done" =>
                   (fl[r].released = 1 /\ ctxs[fl[r].ctx].Request # r)

\* C17 witness: a request for the unregistered path is done, answered
\* not_found, and its Context is back in the pool.
C17_Witness ==
    \E r \in 1..Len(fl) :
        /\ fl[r].path = PX
        /\ fl[r].pc = "done"
        /\ fl[r].resp = << <<"not_found", "not found">> >>
        /\ fl[r].ctx \in ctxPool

(* The dispatcher's log entry for an error h(c) returned. *)
HandlerError(r) == <<"handler error", fl[r].path, fl[r].method, "error">>

(* The responses the frames of h write when h returns normally. *)
OwnResponses(h) ==
    IF h[Len(h)] = "hbad" THEN << <<"bad_request", "bad">> >> ELSE << >>

\* C18: when the resolved handler returns a non-nil error the dispatcher
\* logs exactly one entry with the path, the method and the error and
\* writes no response itself, so that a request nobody answered ends with
\* no response; when the handler returns nil the dispatcher logs nothing.
C18_ErrorLoggedNotAnswered ==
    \A r \in Handled :
        (fl[r].h # NilHandler /\ fl[r].mode = "ret") =>
            IF fl[r].err
            THEN /\ fl[r].log = <<HandlerError(r)>>
                 /\ fl[r].resp = OwnResponses(fl[r].h)
            ELSE \A i \in 1..Len(fl[r].log) : fl[r].log[i][1] # "handler error"

\* C18 witness: a handler returned an error without answering; the request
\* is done with one log entry and no response.
C18_Witness ==
    \E r \in 1..Len(fl) :
        /\ fl[r].pc = "done"
        /\ fl[r].h # NilHandler
        /\ fl[r].h[Len(fl[r].h)] = "herr"
        /\ fl[r].log = <<HandlerError(r)>>
        /\ fl[r].resp = << >>

\* C19: a panic of a handler or decorator with no Recover in the chain
\* ends that request only: the process keeps running and later requests
\* are still dispatched.
C19_AbortIsolated ==
    (\E r \in 1..Len(fl) : fl[r].pc = "escaped") => alive

(* The position of the frame of h that panics when h is called, 0 if none. *)
PanicsAt(h) ==
    IF \E j \in 1..Len(h) : h[j] \in {PanicMW, "hpanic"}
    THEN CHOOSE j \in 1..Len(h) : h[j] \in {PanicMW, "hpanic"}
    ELSE 0

(* The position of Recover in h, 0 if it is not in the chain. *)
RecoverAt(h) ==
    IF \E i \in 1..Len(h) : h[i] = RecoverMW
    THEN CHOOSE i \in 1..Len(h) : h[i] = RecoverMW
    ELSE 0

PassThrough == {"A", "B", "C"}

\* C20: with Recover in the chain, a panic of a frame nested inside it is
\* logged once with the panic value and the request path, answered with
\* "internal_error", and turned into the nil result of that write: the
\* dispatcher logs no error, the panic does not leave the handler, and the
\* decorators outside Recover run their after-phase.  When nothing inside
\* panics, Recover logs and writes nothing and the result is the inner one.
C20_RecoverCatches ==
    \A r \in Handled :
        (fl[r].h # NilHandler /\ RecoverAt(fl[r].h) # 0) =>
            LET h == fl[r].h
                i == RecoverAt(h)
                j == PanicsAt(h)
            IN  IF j > i
                THEN /\ fl[r].mode = "ret"
                     /\ ~fl[r].err
                     /\ fl[r].log = << <<"panic recovered", "panic", fl[r].path>> >>
                     /\ fl[r].resp = << <<"internal_error", "internal error">> >>
                     /\ (i > 1 /\ h[1] \in PassThrough) =>
                           fl[r].events[Len(fl[r].events)] = <<h[1], "after">>
                     /\ \A k \in 1..(i - 1) :
                           h[k] \in PassThrough =>
                              \E e \in 1..Len(fl[r].events) :
                                  fl[r].events[e] = <<h[k], "after">>
                ELSE /\ fl[r].mode = "ret"
                     /\ fl[r].err = (h[Len(h)] \in {"herr", "hbad"})
                     /\ \A e \in 1..Len(fl[r].log) :
                           fl[r].log[e][1] # "panic recovered"
                     /\ \A e \in 1..Len(fl[r].resp) :
                           fl[r].resp[e][1] # "internal_error"

\* C20 witness: [A, R] around a panicking handler: the request is done,
\* answered internal_error, the panic logged, A's after-phase ran.
C20_Witness ==
    \E r \in 1..Len(fl) :
        /\ fl[r].pc = "done"
        /\ fl[r].h = <<"A", "R", "hpanic">>
        /\ fl[r].resp = << <<"internal_error", "internal error">> >>
        /\ fl[r].events = << <<"A", "before">>, <<"hpanic", "run">>,
                             <<"A", "after">> >>

-----------------------------------------------------------------------------
(* Context store: C21 *)

(* C21: Get(k) reports found together with the value of the last Set(k, v) *)
(* on this Context, and reports not found, without panicking, for a key    *)
(* that was never set, also while the store is still unallocated;          *)
(* MustGet(k) returns that same value for a key that is set and panics for *)
(* a key that is not.                                                      *)
C21_StoreAccessors ==
    /\ obs.op = "Get" =>
          /\ ~obs.panic
          /\ IF obs.key \in DOMAIN obs.written
             THEN obs.ok /\ obs.val = obs.written[obs.key]
             ELSE ~obs.ok
    /\ obs.op = "MustGet" =>
          IF obs.key \in DOMAIN obs.written
          THEN ~obs.panic /\ obs.val = obs.written[obs.key]
          ELSE obs.panic

C21_Witness ==
    /\ obs.op = "MustGet"
    /\ obs.panic
    /\ obs.key = StoreKey
    /\ DOMAIN obs.written = {"k2"}

-----------------------------------------------------------------------------
(* Global middleware: C22 *)

(* The entries the recording decorators of the global list make on the way *)
(* in, in registration order.                                              *)
GlobalsWayIn ==
    LET rec == SelectSeq(mw, LAMBDA d : d \notin {RecoverMW, SetterMW, PanicMW})
    IN  [i \in 1..Len(rec) |-> <<rec[i], "before">>]

(* C22: every request the server dispatches, a request that no route       *)
(* matches included, runs the global middleware given to Use, in           *)
(* registration order and before anything else of the chain.               *)
C22_GlobalsOnEveryRequest ==
    \A r \in DOMAIN fl :
        fl[r].pc \in {"release", "put", "done"} =>
            /\ Len(fl[r].events) >= Len(GlobalsWayIn)
            /\ SubSeq(fl[r].events, 1, Len(GlobalsWayIn)) = GlobalsWayIn

-----------------------------------------------------------------------------
(* Server lifecycle: C23 - C25 *)

(* The OnShutdown callbacks in the order of their options. *)
Registered(opts) ==
    LET cbs == SelectSeq(opts, LAMBDA o : o \in {"OnShutdown1", "OnShutdown2"})
    IN  [i \in 1..Len(cbs) |->
            <<"callback", IF cbs[i] = "OnShutdown1" THEN "d1" ELSE "d2">>]

(* The option that hands over each resource. *)
OwnedBy ==
    [logServer |-> "WithLogServer", anchorServer |-> "WithAnchorServer",
     trustStore |-> "WithTrust"]

Given(opts, k) == \E i \in 1..Len(opts) : opts[i] = OwnedBy[k]

(* The resources given among the options, in the order LogServer,          *)
(* AnchorServer, TrustStore, each with its Free call.                      *)
Frees(opts) ==
    LET ks == SelectSeq(<<"logServer", "anchorServer", "trustStore">>,
                        LAMBDA k : Given(opts, k))
    IN  [i \in 1..Len(ks) |-> <<"Free", ks[i]>>]

(* The fields of the Server. *)
ServerFields(s) ==
    <<s.keypair, s.settings, s.logLevel, s.nwep, s.logServer, s.anchorServer,
      s.trustStore, s.onStart, s.onShutdown>>

(* C23: while the Server is not running, before a successful Start and     *)
(* after Shutdown alike, Notify, NotifyWithOptions and NotifyJSON (of a    *)
(* value that marshals) return ErrServerNotRunning, NotifyAll does         *)
(* nothing, NotifyAllJSON returns nil, ConnectionCount returns 0 and       *)
(* ConnectedPeers returns nil.                                             *)
C23_NotRunningAnswers ==
    (srv.phase = "ready" /\ (srv.nwep = "nil" \/ srv.shutdowns > 0)
     /\ obs.err # "json error") =>
        /\ obs.op \in {"Notify", "NotifyWithOptions", "NotifyJSON"} =>
              obs.err = "ErrServerNotRunning"
        /\ obs.op \in {"NotifyAll", "NotifyAllJSON"} =>
              obs.err = "" /\ ~obs.sent
        /\ obs.op = "ConnectionCount" => obs.count = 0
        /\ obs.op = "ConnectedPeers" => obs.peers = << >>

(* C24: Shutdown of a started Server runs every OnShutdown callback in     *)
(* registration order, then closes the nwep server, then frees the         *)
(* LogServer, the AnchorServer and the TrustStore it holds, after which    *)
(* LogServer() and AnchorServer() are nil; Shutdown of a Server that was   *)
(* never started runs no callback and changes no field.                    *)
C24_ShutdownOrder ==
    obs.op = "Shutdown" =>
        IF obs.pre.nwep = "nil"
        THEN /\ obs.seg = << >>
             /\ ServerFields(srv) = ServerFields(obs.pre)
        ELSE /\ obs.seg =
                  Registered(srv.opts)
                  \o << <<"Shutdown", "nwep">> >>
                  \o (IF obs.pre.nwep = "running"
                      THEN Frees(srv.opts)
                      ELSE << >>)
             /\ srv.logServer = "nil"
             /\ srv.anchorServer = "nil"

C24_Witness ==
    /\ obs.op = "Shutdown"
    /\ obs.pre.nwep = "running"
    /\ obs.seg = << <<"callback", "d2">>, <<"callback", "d1">>,
                    <<"Shutdown", "nwep">>, <<"Free", "logServer">>,
                    <<"Free", "anchorServer">>, <<"Free", "trustStore">> >>

(* C25: a Server given a TrustStore, a LogServer or an AnchorServer has    *)
(* freed it once Shutdown has returned, and frees it at most once however  *)
(* often Shutdown is called.                                               *)
C25_OwnedFreedOnce ==
    srv.phase = "ready" =>
        \A k \in DOMAIN OwnedBy :
            Given(srv.opts, k) =>
                /\ srv.freed[k] <= 1
                /\ srv.shutdowns > 0 => srv.freed[k] = 1

-----------------------------------------------------------------------------
(* Peer access control and identity verification: C26 - C28 *)

Ran(name) == \E i \in 1..Len(obs.out.calls) : obs.out.calls[i] = name

(* C26: on a route behind RequirePeer then AllowPeers(ids), a request with *)
(* a zero peer node ID gets exactly one unauthorized response, a request   *)
(* of an authenticated peer outside ids gets exactly one forbidden         *)
(* response, and the handler runs for the peers in ids and for no other.   *)
C26_RequireThenAllow ==
    (obs.op = "serve" /\ obs.chain = <<"RequirePeer", "AllowPeers">>) =>
        LET peer == PeerNodeID(obs.out.conn)
        IN  /\ IsZero(peer) =>
                 /\ obs.out.resp =
                       << <<"unauthorized", "peer identity required">> >>
                 /\ ~Ran("handler")
            /\ (~IsZero(peer) /\ peer \notin obs.out.allowed) =>
                 /\ obs.out.resp = << <<"forbidden", "peer not allowed">> >>
                 /\ ~Ran("handler")
            /\ Ran("handler") <=> (~IsZero(peer) /\ peer \in obs.out.allowed)

C26_Witness ==
    /\ obs.op = "serve"
    /\ obs.chain = <<"RequirePeer", "AllowPeers">>
    /\ obs.out.conn = "unauthenticated"
    /\ obs.out.allowed = {"p1"}
    /\ obs.out.resp = << <<"unauthorized", "peer identity required">> >>

(* C27: behind AllowPeers alone, whatever the allowed list, a request with *)
(* a zero peer node ID does not match: it gets the forbidden response and  *)
(* the handler does not run.                                               *)
C27_ZeroNeverAllowed ==
    (obs.op = "serve" /\ obs.chain = <<"AllowPeers">>
     /\ IsZero(PeerNodeID(obs.out.conn))) =>
        /\ obs.out.resp = << <<"forbidden", "peer not allowed">> >>
        /\ ~Ran("handler")

(* C28: TrustVerify calls next exactly once whatever the lookup returns,   *)
(* writes no response of its own and returns what next returns; the        *)
(* identity is in the Context only when the peer node ID is non-zero and   *)
(* the lookup returned a non-nil identity without error, and otherwise     *)
(* VerifiedIdentity is nil.                                                *)
C28_TrustVerifyTransparent ==
    (obs.op = "serve" /\ obs.chain = <<"TrustVerify">>) =>
        /\ obs.out.calls = <<"TrustVerify", "handler">>
        /\ obs.out.resp = << <<"ok", "body">> >>
        /\ obs.out.ret = obs.out.herr
        /\ IF /\ ~IsZero(PeerNodeID(obs.out.conn))
              /\ obs.out.lookup = [vi |-> "identity", err |-> FALSE]
           THEN /\ obs.out.seen = "identity"
                /\ VerifiedIdentity(obs.out) = "identity"
           ELSE /\ obs.out.seen = "nil"
                /\ VerifiedIdentity(obs.out) = "nil"
                /\ obs.out.store = << >>

C28_Witness ==
    /\ obs.op = "serve"
    /\ obs.chain = <<"TrustVerify">>
    /\ obs.out.conn = "p1"
    /\ obs.out.lookup = [vi |-> "identity", err |-> TRUE]
    /\ obs.out.herr
    /\ obs.out.seen = "nil"

-----------------------------------------------------------------------------
(* Server construction: C29 - C30 *)

(* The keypair and the settings before option i of New was applied. *)
Before(i) ==
    IF i = 1 THEN [keypair |-> "nil", settings |-> ZeroSettings]
    ELSE [keypair |-> srv.applied[i - 1].keypair,
          settings |-> srv.applied[i - 1].settings]

(* C29: Config.Apply changes only what a non-zero field of the Config      *)
(* names: where the field is zero, the setting an earlier option wrote,     *)
(* such as the role of WithRole or the settings of WithSettings, is left    *)
(* as it was.                                                               *)
C29_ZeroFieldsIgnored ==
    obs.op = "New" =>
        \A i \in 1..Len(srv.applied) :
            (srv.applied[i].opt \in DOMAIN Configs /\ ~srv.applied[i].err) =>
                LET cfg == Configs[srv.applied[i].opt]
                    was == Before(i)
                    now == srv.applied[i]
                IN  /\ \A f \in {"MaxStreams", "MaxMessageSize", "TimeoutMs"} :
                           cfg[f] = 0 => now.settings[f] = was.settings[f]
                    /\ \A f \in {"Compression", "Role"} :
                           cfg[f] = "" => now.settings[f] = was.settings[f]
                    /\ (cfg.KeyFile = "" /\ cfg.KeyEnv = "") =>
                           now.keypair = was.keypair

(* C30: New applies its options in the order given and stops at the first   *)
(* option that returns an error: no later option is applied and New        *)
(* returns the error and no Server; New generates a random keypair only    *)
(* when every option has succeeded and none of them set a keypair.         *)
C30_OptionsInOrder ==
    (obs.op = "New" /\ obs.err # "velocity: nwep init") =>
        LET n == Len(srv.applied)
        IN  /\ n <= Len(srv.opts)
            /\ \A i \in 1..n : srv.applied[i].opt = srv.opts[i]
            /\ \A i \in 1..(n - 1) : ~srv.applied[i].err
            /\ IF n > 0 /\ srv.applied[n].err
               THEN /\ srv.phase = "failed"
                    /\ obs.err = "velocity: option"
                    /\ srv.keypair # "random"
               ELSE /\ n = Len(srv.opts)
                    /\ srv.phase = "ready" => srv.keypair # "nil"
            /\ srv.keypair = "random" =>
                  \A i \in 1..n : srv.applied[i].keypair = "nil"
            /\ (srv.phase = "failed" /\ obs.err = "velocity: generate keypair")
                  => \A i \in 1..n : srv.applied[i].keypair = "nil"

C30_Witness ==
    /\ obs.op = "New"
    /\ srv.opts = <<"WithTrustBad", "WithKeypair">>
    /\ Len(srv.applied) = 1
    /\ srv.phase = "failed"

-----------------------------------------------------------------------------
(* Registration after Start: C31 *)

-----------------------------------------------------------------------------
(* Decorator storage: C32 to C34, C36 *)

(* Slice u shows the same elements after the step as before it.            *)
Kept(u) == Elems(mem', mem'.refs[u]) = Elems(mem, mem.refs[u])

(* C33: combineMW(a, b) returns the elements of a followed by those of b,  *)
(* len(a)+len(b) of them, and leaves a and b as they were; afterwards an   *)
(* overwrite of an element of a, b or the result, or an append to one of   *)
(* them, changes the elements of none of the other slices.                 *)
C33_CombineFresh ==
    [][LET t == mem'.op[2]
       IN  /\ mem'.op[1] = "combineMW" =>
                LET c == mem'.refs[t]
                    a == mem.refs[c.args[1]]
                    b == mem.refs[c.args[2]]
                IN  /\ t = Len(mem.refs) + 1
                    /\ Elems(mem', c) = Elems(mem, a) \o Elems(mem, b)
                    /\ c.len = a.len + b.len
                    /\ \A u \in 1..Len(mem.refs) : Kept(u)
           /\ mem'.op[1] \in {"overwrite", "append"} =>
                \A u \in 1..Len(mem.refs) : u # t => Kept(u)]_vars

(* The caller has overwritten the first element of a slice it had passed   *)
(* to combineMW, whose array has a spare cell, and the result still shows  *)
(* what it was given.                                                      *)
C33_Witness ==
    \E c \in 1..Len(mem.refs) :
        /\ mem.refs[c].kind = "combined"
        /\ mem.op = <<"overwrite", mem.refs[c].args[1]>>
        /\ Capacity(mem, mem.refs[mem.refs[c].args[1]]) >
             mem.refs[mem.refs[c].args[1]].len
        /\ Elems(mem, mem.refs[mem.refs[c].args[1]])[1] = "X"
        /\ Elems(mem, mem.refs[c]) = mem.refs[c].want
        /\ mem.refs[c].want = <<"A", "A">>

(* C32: creating a group or a sub-group, or registering a route on the     *)
(* Router or through a group, leaves the decorator sequence of every       *)
(* group and every route that existed before as it was: the parent's, the  *)
(* ancestors', the siblings' and the earlier routes'.                      *)
C32_GroupsLeaveOthersAlone ==
    [][mem'.op[1] \in {"Group", "Handle"} =>
         /\ Len(mem'.refs) = Len(mem.refs) + 1
         /\ \A u \in 1..Len(mem.refs) :
              mem.refs[u].kind \in {"group", "route"} =>
                  /\ Kept(u)
                  /\ mem'.refs[u] = mem.refs[u]]_vars

(* A second sub-group with another decorator has been created from a       *)
(* group whose stored slice has a spare cell, and the first sub-group      *)
(* still shows its own decorators.                                         *)
C32_Witness ==
    \E g, t1, t2 \in 1..Len(mem.refs) :
        /\ mem.refs[g].kind = "group"
        /\ Capacity(mem, mem.refs[g]) > mem.refs[g].len
        /\ mem.refs[t1].kind = "group" /\ mem.refs[t1].args = <<g>>
        /\ mem.refs[t2].kind = "group" /\ mem.refs[t2].args = <<g>>
        /\ t1 < t2
        /\ mem.op = <<"Group", t2>>
        /\ Elems(mem, mem.refs[t1]) = <<"A", "B">>
        /\ Elems(mem, mem.refs[t2]) = <<"A", "A">>

(* C34: when the caller overwrites an element of a decorator slice it      *)
(* passed to Router.Group, Group.Group or a registration method of Router  *)
(* or Group, after that call returned, every group and every route shows   *)
(* the decorators it showed before the overwrite.                          *)
C34_CallerOverwriteHarmless ==
    [][mem'.op[1] = "overwrite" =>
         \A u \in 1..Len(mem.refs) :
             mem.refs[u].kind \in {"group", "route"} => Kept(u)]_vars

(* C36: Find calls, interleaved in any way, leave every route's decorators *)
(* and the caller's global decorator slice as they were and never change   *)
(* the combined slice of another Find call, so each call applies exactly   *)
(* the decorators it combined: the global ones, then the route's.          *)
C36_FindReadOnly ==
    /\ [](\A c \in 1..Len(mem.refs) :
            mem.refs[c].done => mem.refs[c].got = mem.refs[c].want)
    /\ [][mem'.op[1] = "Find" =>
            /\ mem'.global = mem.global
            /\ Elems(mem', mem'.global) = Elems(mem, mem.global)
            /\ \A u \in 1..Len(mem.refs) :
                 /\ Kept(u)
                 /\ mem.refs[u].kind = "route" => mem'.refs[u] = mem.refs[u]]_vars

(* Two Find calls on routes with different decorators overlap, the global  *)
(* slice having a spare cell: the second has combined its slice before     *)
(* the first applied its own, and the first applied what it had combined.  *)
C36_Witness ==
    \E c1, c2 \in 1..Len(mem.refs) :
        /\ c1 < c2
        /\ mem.refs[c1].kind = "chain" /\ mem.refs[c2].kind = "chain"
        /\ mem.op = <<"Find", c1>>
        /\ mem.refs[c1].done /\ ~mem.refs[c2].done
        /\ mem.refs[c1].got = <<"G", "B">>
        /\ mem.refs[c2].want = <<"G", "A">>
        /\ Capacity(mem, mem.global) > mem.global.len

-----------------------------------------------------------------------------
(* Find composes per call: C35 *)

(* How many elements of sequence s equal d. *)
Occurrences(s, d) == Cardinality({i \in 1..Len(s) : s[i] = d})

(* The route the last Find call selected, NoRoute if it selected none. *)
Selected ==
    LET l == RouterLookup(req[1], req[2]) IN
    IF l.tier \in {"method", "path"} THEN exact[l.key]
    ELSE IF l.tier = "prefix" THEN prefixes[l.index].route
    ELSE NoRoute

(* C35: the handler a Find call returns for a selected route is that       *)
(* route's handler wrapped in the decorators this call was given followed  *)
(* by the route's, each as often as it is listed, the first outermost      *)
(* (applied last to first); it depends on the arguments and the tables     *)
(* only, so the same call on an unchanged Router returns the same chain    *)
(* and a call with other global decorators is not served a chain composed  *)
(* for an earlier call.                                                    *)
C35_FindRecomposes ==
    (req # << >> /\ Selected # NoRoute) =>
        LET ds == req[3] \o Selected.middleware IN
        /\ Len(found) = Len(ds) + 1
        /\ \A i \in 1..Len(ds) : found[i] = ds[i]
        /\ found[Len(found)] = Selected.handler[1]
        /\ \A d \in {ds[i] : i \in 1..Len(ds)} :
              Occurrences(SubSeq(found, 1, Len(ds)), d) = Occurrences(ds, d)

(* A Find call with two global decorators selected a route registered with *)
(* two decorators of its own.                                              *)
C35_Witness ==
    /\ req # << >>
    /\ req[3] = <<"G1", "G2">>
    /\ Selected # NoRoute
    /\ Selected.middleware = <<"A", "B">>
    /\ found = <<"G1", "G2", "A", "B", "h2">>

-----------------------------------------------------------------------------
(* Handle and Method registrations apart: C37 *)

(* C37: a Handle call leaves every route registered with Method as it was, *)
(* and a Method call leaves every route registered with Handle as it was.  *)
C37_HandleAndMethodApart ==
    [][\A k \in DOMAIN owner :
          ((last'.op = "Handle" /\ owner[k].op = "Method")
              \/ (last'.op = "Method" /\ owner[k].op = "Handle"))
          => (exact'[k] = exact[k] /\ owner'[k] = owner[k])]_vars

-----------------------------------------------------------------------------
(* One response per request: C38 *)

(* C38: with handlers that answer once at most, every request gets one     *)
(* response at most from the dispatcher, the decorators and the handler    *)
(* together: also when the handler answers and then panics under Recover,  *)
(* and when it answers and then returns an error.                          *)
C38_AnsweredOnceAtMost ==
    \A r \in 1..Len(fl) : Len(fl[r].resp) <= 1

-----------------------------------------------------------------------------
(* Start and its callbacks: C39 *)

(* The names of the OnStart callbacks the options register, in the order   *)
(* of the options.                                                         *)
OnStartNames(opts) ==
    LET F[i \in 0..Len(opts)] ==
            IF i = 0 THEN << >>
            ELSE IF opts[i] = "OnStart" THEN Append(F[i - 1], "s1")
            ELSE IF opts[i] = "OnStart2" THEN Append(F[i - 1], "s2")
            ELSE F[i - 1]
    IN  F[Len(opts)]

(* C39: a Start that gets its nwep server creates it first and then runs   *)
(* the OnStart callbacks, each once, in the order they were registered;    *)
(* a Start whose nwep server cannot be created returns an error, runs no   *)
(* callback and leaves the Server not started: URL is "", Addr is nil and  *)
(* Shutdown changes nothing.                                               *)
C39_StartCallbacks ==
    /\ obs.op = "Start" =>
          IF obs.err = ""
          THEN /\ srv.nwep = "running"
               /\ obs.seg = << <<"NewServer", "nwep">> >>
                            \o [i \in 1..Len(OnStartNames(obs.pre.opts)) |->
                                   <<"callback", OnStartNames(obs.pre.opts)[i]>>]
               /\ srv.hist = obs.pre.hist \o obs.seg
          ELSE /\ obs.seg = << >>
               /\ srv = obs.pre
               /\ srv.nwep = "nil"
               /\ URL(srv) = ""
               /\ Addr(srv) = "nil"
               /\ ShutdownOf(srv) = srv
    /\ (obs.op = "URL" /\ srv.nwep = "nil") => obs.val = ""
    /\ (obs.op = "Addr" /\ srv.nwep = "nil") => obs.val = "nil"
    /\ (obs.op = "Shutdown" /\ obs.pre.nwep = "nil") =>
          /\ obs.seg = << >>
          /\ srv = [obs.pre EXCEPT !.shutdowns = @ + 1]

(* A Server with two OnStart callbacks, the second option registered       *)
(* first, was started: the nwep server was created, then s2 ran, then s1.  *)
C39_Witness ==
    /\ obs.op = "Start"
    /\ obs.err = ""
    /\ srv.nwep = "running"
    /\ obs.seg = << <<"NewServer", "nwep">>, <<"callback", "s2">>,
                    <<"callback", "s1">> >>

-----------------------------------------------------------------------------
(* Contexts and Servers: C40 *)

(* C40: a Context that served a request of one Server is never bound to a  *)
(* request of another Server: requests that used the same Context are      *)
(* requests of the same Server.                                            *)
C40_PoolPerServer ==
    \A r1, r2 \in 1..Len(fl) :
        (fl[r1].ctx # 0 /\ fl[r1].ctx = fl[r2].ctx) =>
            fl[r1].server = fl[r2].server

====
